---- MODULE Spec2Model ----
(***************************************************************************)
(* Model of the empty-folders-remover core (src/src/core.ts):              *)
(* DirectoryScanner (exclude patterns, recursive concurrent scan),         *)
(* EmptyFolderRemover (depth-grouped, batched removal) and aggregateStats. *)
(*                                                                         *)
(* Strings are sequences of one-character strings.  A path is a sequence   *)
(* of names: path.basename is the last name, path.join appends a name.     *)
(***************************************************************************)
EXTENDS Integers, Sequences, FiniteSets, TLC

(***************************************************************************)
(* Bounds of the model.                                                    *)
(***************************************************************************)
MaxPatLen == 3
MaxNameLen == 3
MaxDepth == 2
MaxDirs == 4
MaxUnreadable == 1
MaxRecords == 2
MaxActorSteps == 1
MaxCount == 1
MaxStats == 2
MaxCalls == 2

(***************************************************************************)
(* Characters and strings.                                                 *)
(***************************************************************************)
PatChars == {"a", "A", ".", "*"}
NameChars == {"a", "A", "."}

SeqsFromTo(S, lo, hi) == UNION {[1..k -> S] : k \in lo..hi}

\* String.prototype.toLowerCase on one character
toLowerCaseChar(c) == IF c = "A" THEN "a" ELSE c

\* String.prototype.toLowerCase
toLowerCase(s) == [k \in 1..Len(s) |-> toLowerCaseChar(s[k])]

\* String.prototype.includes('*')
includesStar(s) == \E k \in 1..Len(s) : s[k] = "*"

\* pattern.replace(/\*/g, '.*')
RECURSIVE replaceStar(_)
replaceStar(s) ==
  IF s = <<>> THEN <<>>
  ELSE (IF Head(s) = "*" THEN <<".", "*">> ELSE <<Head(s)>>) \o replaceStar(Tail(s))

\* new RegExp('^' + pattern.replace(/\*/g, '.*') + '$', 'i'): the regex source
compileRegex(pattern) == <<"^">> \o replaceStar(pattern) \o <<"$">>

\* The 'i' flag compares canonicalised (upper-cased) characters
Canonicalize(c) == IF c = "a" THEN "A" ELSE c

\* One regex atom against one character: '.' matches any character
AtomMatches(atom, c) == atom = "." \/ Canonicalize(atom) = Canonicalize(c)

\* Backtracking match of regex source re from position i against s from position j
RECURSIVE MatchHere(_, _, _, _)
MatchHere(re, i, s, j) ==
  IF i > Len(re) THEN TRUE
  ELSE IF re[i] = "$" /\ i = Len(re) THEN j > Len(s)
  ELSE IF i < Len(re) /\ re[i + 1] = "*"
    THEN \/ MatchHere(re, i + 2, s, j)
         \/ j <= Len(s) /\ AtomMatches(re[i], s[j]) /\ MatchHere(re, i, s, j + 1)
  ELSE j <= Len(s) /\ AtomMatches(re[i], s[j]) /\ MatchHere(re, i + 1, s, j + 1)

\* RegExp.prototype.test for the sources compileRegex builds (anchored by '^')
regexTest(re, s) ==
  IF re # <<>> /\ re[1] = "^" THEN MatchHere(re, 2, s, 1)
  ELSE \E j \in 1..(Len(s) + 1) : MatchHere(re, 1, s, j)

(***************************************************************************)
(* DirectoryScanner constructor: pre-compiles the exclude patterns.        *)
(***************************************************************************)
constructSimplePatterns(excludePatterns) ==
  {toLowerCase(excludePatterns[k]) :
     k \in {n \in 1..Len(excludePatterns) : ~includesStar(excludePatterns[n])}}

constructRegexPatterns(excludePatterns) ==
  LET RECURSIVE build(_)
      build(ps) ==
        IF ps = <<>> THEN <<>>
        ELSE (IF includesStar(Head(ps)) THEN <<compileRegex(Head(ps))>> ELSE <<>>)
             \o build(Tail(ps))
  IN build(excludePatterns)

\* A plausible slip: the name is looked up without lower-casing it
shouldExcludeNoLower(simple, regexes, dirName) ==
  \/ dirName \in simple
  \/ \E k \in 1..Len(regexes) : regexTest(regexes[k], dirName)

\* DirectoryScanner.shouldExclude
shouldExclude(simple, regexes, dirName) ==
  LET lowerName == toLowerCase(dirName)
  IN \/ lowerName \in simple
     \/ \E k \in 1..Len(regexes) : regexTest(regexes[k], dirName)

(***************************************************************************)
(* The directory universe.  Names of directories are strings; the scan     *)
(* root is the path <<RootName>>, and depth counts the names below it.     *)
(***************************************************************************)
RootName == <<"a">>
DirNames == {<<"a">>, <<".", "a">>}
RootPath == <<RootName>>
Paths == {p \in SeqsFromTo(DirNames, 1, MaxDepth + 1) : p[1] = RootName}

\* path.basename
basename(p) == p[Len(p)]

\* path.join(dirPath, name)
join(p, name) == Append(p, name)

\* path.dirname
dirname(p) == SubSeq(p, 1, Len(p) - 1)

IsPrefix(p, q) == Len(p) <= Len(q) /\ SubSeq(q, 1, Len(p)) = p

\* The exclude-pattern lists of the tree specifications: none, an exact
\* pattern in another case, a wildcard pattern
TreePatternLists == { <<>>, << <<".", "A">> >>, << <<"*", "a">> >> }

\* The exclude-pattern lists the pure check of shouldExclude draws from
Patterns == SeqsFromTo(PatChars, 1, MaxPatLen)
ProbeNames == SeqsFromTo(NameChars, 1, MaxNameLen)
ShortPatterns == SeqsFromTo(PatChars, 1, 1)
ProbePatternLists ==
  {<<>>} \cup {<<p>> : p \in Patterns}
         \cup {<<p, q>> : p \in Patterns, q \in ShortPatterns}
         \cup {<<q, p>> : p \in Patterns, q \in ShortPatterns}

VARIABLES
  fsDirs,          \* filesystem: the paths that are directories
  fsFiles,         \* filesystem: the directories holding a non-directory entry
  unreadable,      \* filesystem: the directories whose listing fails
  initialDirs,     \* history: the directories at the start
  excludePatterns, \* config.excludePatterns
  simplePatterns,  \* DirectoryScanner.simplePatterns
  regexPatterns,   \* DirectoryScanner.regexPatterns
  token,           \* token.isCancellationRequested
  phase,           \* where the caller is
  scanCalls,       \* the scanRecursive calls made, by dirPath: pc ("reading",
                   \* "waiting", "returned"), depth, subdirectories, hasFiles
  directories,     \* scanDirectories: the records pushed so far
  emptyDirs,       \* scanDirectories: the paths judged empty so far
  scanResult,      \* what scanDirectories returned
  cancelledAt,     \* history: the number of records pushed when the token was set
  probe,           \* the last shouldExclude call: its argument and result
  aggregation,     \* the last aggregateStats call: its arguments, the Stats objects
                   \* after it, and its result
  maxConcurrency,  \* config.maxConcurrency
  dryRun,          \* config.dryRun
  sinkThrows,      \* whether the caller's onProgress throws when called
  inputDirectories,\* removeEmptyFolders: its directories argument
  depths,          \* removeEmptyFolders: the depth keys, deepest first
  depthIdx,        \* removeEmptyFolders: the position of the outer loop in depths
  batchStart,      \* removeEmptyFolders: i, the start of the current batch in its group
  taskPc,          \* per record: "pending", "readdir", "rmdir", "removed", "skipped", "error"
  stats,           \* EmptyFolderRemover.stats
  progress,        \* the messages handed to onProgress, in order
  rejected,        \* the records whose removeDirectory promise rejected
  returned,        \* history: the Stats values earlier calls returned, as returned
  actorSteps       \* the number of changes the external actor has made

scanVars == <<scanCalls, directories, emptyDirs, scanResult>>
fsVars == <<fsDirs, fsFiles, unreadable, initialDirs>>
scannerFields == <<excludePatterns, simplePatterns, regexPatterns>>
removerConfig == <<maxConcurrency, dryRun, sinkThrows>>
removeVars == <<inputDirectories, depths, depthIdx, batchStart, taskPc, stats, progress,
                rejected, returned>>
vars == <<fsVars, scannerFields, token, phase, scanVars, cancelledAt, probe, aggregation,
          removerConfig, removeVars, actorSteps>>

NoProbe == [name |-> <<>>, called |-> FALSE, result |-> FALSE]

NoAggregation == [called |-> FALSE, args |-> <<>>, statsList |-> <<>>, result |-> <<>>]

(***************************************************************************)
(* Filesystem calls.                                                       *)
(***************************************************************************)
ChildDirs(dirs, p) == {q \in dirs : Len(q) = Len(p) + 1 /\ dirname(q) = p}

\* fs.readdir: fails on a missing or unlistable directory
readdirFails(dirs, unr, p) == p \notin dirs \/ p \in unr

\* fs.readdir(p).length === 0
readdirIsEmpty(dirs, files, p) == ChildDirs(dirs, p) = {} /\ p \notin files

(***************************************************************************)
(* DirectoryScanner.scanDirectories / scanRecursive.                       *)
(* One scanRecursive call runs synchronously to its first await (the       *)
(* readdir), resumes when the listing arrives, starts its subdirectories'  *)
(* calls, and resumes once more when all of them have returned.            *)
(***************************************************************************)
ScanState == [calls |-> scanCalls, directories |-> directories, emptyDirs |-> emptyDirs]

\* A scanRecursive(dirPath, depth) call at its first await, or already returned
newCall(pc, depth) == [pc |-> pc, depth |-> depth, subdirectories |-> {}, hasFiles |-> FALSE]

\* A plausible slip: the exclusion check is missing
scanRecursiveEntryNoExclude(tok, simple, regexes, p) ==
  IF tok THEN "returned" ELSE "reading"

\* A plausible slip: the exclusion check is applied to subdirectories only, the
\* directory the scan was asked for is always scanned
scanRecursiveEntryRootExempt(tok, simple, regexes, p) ==
  IF tok THEN "returned"
  ELSE IF p # RootPath /\ shouldExclude(simple, regexes, basename(p)) THEN "returned"
  ELSE "reading"

\* A plausible slip: the token is not polled at the top of scanRecursive
scanRecursiveEntryNoTokenCheck(tok, simple, regexes, p) ==
  IF shouldExclude(simple, regexes, basename(p)) THEN "returned" ELSE "reading"

\* scanRecursive up to its first await: the token check, the exclusion check,
\* then the readdir is issued
scanRecursiveEntry(tok, simple, regexes, p) ==
  IF tok THEN "returned"
  ELSE IF shouldExclude(simple, regexes, basename(p)) THEN "returned"
  ELSE "reading"

\* A plausible slip: the subdirectories' verdicts are not consulted
isEmptyVerdictNoSubdirs(S, p) == ~S.calls[p].hasFiles

\* A plausible slip: no cascade, only a directory without any entry is empty
isEmptyVerdictLeafOnly(S, p) == ~S.calls[p].hasFiles /\ S.calls[p].subdirectories = {}

\* A plausible slip: a subdirectory that left no record does not count
isEmptyVerdictUnrecordedInvisible(S, p) ==
  /\ ~S.calls[p].hasFiles
  /\ \A sd \in S.calls[p].subdirectories :
       \/ sd \in S.emptyDirs
       \/ \A k \in 1..Len(S.directories) : S.directories[k].path # sd

\* The verdict of one directory once its subdirectories have returned
isEmptyVerdict(S, p) ==
  LET allSubdirsEmpty == \A sd \in S.calls[p].subdirectories : sd \in S.emptyDirs
  IN ~S.calls[p].hasFiles /\ allSubdirsEmpty

\* A plausible slip: Promise.race in place of Promise.all, the directory goes on
\* as soon as one subdirectory's scan has returned
RECURSIVE joinSubdirectoriesNoBarrier(_, _)
joinSubdirectoriesNoBarrier(S, p) ==
  IF /\ S.calls[p].pc = "waiting"
     /\ \/ S.calls[p].subdirectories = {}
        \/ \E sd \in S.calls[p].subdirectories : S.calls[sd].pc = "returned"
  THEN LET isEmpty == isEmptyVerdict(S, p)
           T == [S EXCEPT
                   !.calls[p].pc = "returned",
                   !.directories =
                      Append(@, [path |-> p, depth |-> S.calls[p].depth,
                                  isEmpty |-> isEmpty]),
                   !.emptyDirs = IF isEmpty THEN @ \cup {p} ELSE @]
       IN IF p = RootPath THEN T ELSE joinSubdirectoriesNoBarrier(T, dirname(p))
  ELSE S

\* scanRecursive after Promise.all: push the record, remember an empty path,
\* return; the parent's Promise.all may resolve in turn
RECURSIVE joinSubdirectories(_, _)
joinSubdirectories(S, p) ==
  IF /\ S.calls[p].pc = "waiting"
     /\ \A sd \in S.calls[p].subdirectories : S.calls[sd].pc = "returned"
  THEN LET isEmpty == isEmptyVerdict(S, p)
           T == [S EXCEPT
                   !.calls[p].pc = "returned",
                   !.directories =
                      Append(@, [path |-> p, depth |-> S.calls[p].depth,
                                  isEmpty |-> isEmpty]),
                   !.emptyDirs = IF isEmpty THEN @ \cup {p} ELSE @]
       IN IF p = RootPath THEN T ELSE joinSubdirectories(T, dirname(p))
  ELSE S

\* A plausible slip: the catch block records the directory it could not list
returnEarlyRecording(S, p) ==
  LET T == [S EXCEPT
              !.calls[p].pc = "returned",
              !.directories = Append(@, [path |-> p, depth |-> S.calls[p].depth,
                                         isEmpty |-> FALSE])]
  IN IF p = RootPath THEN T ELSE joinSubdirectories(T, dirname(p))

\* A plausible slip: the early-return paths leave the call's promise unsettled
\* (a hand-made promise whose resolve is skipped), so the parent's Promise.all
\* is never resumed by them
returnEarlyUnsettled(S, p) == [S EXCEPT !.calls[p].pc = "returned"]

\* scanRecursive returns without a record; its parent may resume
returnEarly(S, p) ==
  LET T == [S EXCEPT !.calls[p].pc = "returned"]
  IN IF p = RootPath THEN T ELSE joinSubdirectories(T, dirname(p))

\* scanRecursive when its readdir settles
readdirSettled(S, dirs, files, unr, tok, simple, regexes, p) ==
  IF readdirFails(dirs, unr, p) THEN returnEarly(S, p)
  ELSE
    LET subs == ChildDirs(dirs, p)
        items == subs \cup (IF p \in files THEN {<<"file">>} ELSE {})
    IN IF items # {} /\ tok THEN returnEarly(S, p)
       ELSE
         LET depth == S.calls[p].depth
             T == [S EXCEPT
                     !.calls = [q \in DOMAIN @ \cup subs |->
                       IF q \in subs
                         THEN newCall(scanRecursiveEntry(tok, simple, regexes, q), depth + 1)
                       ELSE IF q = p
                         THEN [@[q] EXCEPT !.pc = "waiting", !.subdirectories = subs,
                                           !.hasFiles = p \in files]
                       ELSE @[q]]]
         IN joinSubdirectories(T, p)

\* Stable insertion of a record into a list sorted by depth, deepest first
RECURSIVE insertByDepth(_, _)
insertByDepth(sorted, r) ==
  IF sorted = <<>> THEN <<r>>
  ELSE IF Head(sorted).depth >= r.depth
    THEN <<Head(sorted)>> \o insertByDepth(Tail(sorted), r)
  ELSE <<r>> \o sorted

RECURSIVE sortFrom(_, _)
sortFrom(sorted, rest) ==
  IF rest = <<>> THEN sorted ELSE sortFrom(insertByDepth(sorted, Head(rest)), Tail(rest))

\* A plausible slip: the list is returned in push order
sortByDepthUnsorted(ds) == ds

\* directories.sort((a, b) => b.depth - a.depth): stable, deepest first
sortByDepth(ds) == sortFrom(<<>>, ds)

ScanFinished(S) == S.calls[RootPath].pc = "returned"

ApplyScan(S) ==
  \E T \in {S} :
    /\ scanCalls' = T.calls
    /\ directories' = T.directories
    /\ emptyDirs' = T.emptyDirs
    /\ IF ScanFinished(T)
         THEN scanResult' = sortByDepth(T.directories) /\ phase' = "scanned"
         ELSE scanResult' = scanResult /\ phase' = "scanning"

\* The caller calls scanDirectories(rootPath, token)
ScanCall ==
  /\ phase = "idle"
  /\ LET entry == scanRecursiveEntry(token, simplePatterns, regexPatterns, RootPath)
         S0 == [ScanState EXCEPT !.calls = [q \in {RootPath} |-> newCall(entry, 0)]]
     IN ApplyScan(S0)
  /\ UNCHANGED <<fsVars, scannerFields, token, cancelledAt, probe, aggregation, removerConfig, removeVars, actorSteps>>

\* A plausible slip: the scanner removes a directory as soon as its listing
\* comes back empty
ScanReaddirSettledRemoving(p) ==
  /\ phase = "scanning"
  /\ p \in DOMAIN scanCalls
  /\ scanCalls[p].pc = "reading"
  /\ ApplyScan(readdirSettled(ScanState, fsDirs, fsFiles, unreadable, token,
                              simplePatterns, regexPatterns, p))
  /\ fsDirs' = IF ~readdirFails(fsDirs, unreadable, p) /\ readdirIsEmpty(fsDirs, fsFiles, p)
                 THEN fsDirs \ {p} ELSE fsDirs
  /\ UNCHANGED <<fsFiles, unreadable, initialDirs, scannerFields, token, cancelledAt,
                 probe, aggregation, removerConfig, removeVars, actorSteps>>

\* The listing of directory p arrives
ScanReaddirSettled(p) ==
  /\ phase = "scanning"
  /\ p \in DOMAIN scanCalls
  /\ scanCalls[p].pc = "reading"
  /\ ApplyScan(readdirSettled(ScanState, fsDirs, fsFiles, unreadable, token,
                              simplePatterns, regexPatterns, p))
  /\ UNCHANGED <<fsVars, scannerFields, token, cancelledAt, probe, aggregation, removerConfig, removeVars, actorSteps>>

\* The user cancels: the host sets token.isCancellationRequested
Cancel ==
  /\ phase \in {"idle", "scanning", "ready", "removing"}
  /\ ~token
  /\ token' = TRUE
  /\ cancelledAt' = Len(directories)
  /\ UNCHANGED <<fsVars, scannerFields, phase, scanVars, probe, aggregation, removerConfig, removeVars,
                 actorSteps>>

\* A call of scanner.shouldExclude(name); the call changes no state of the
\* scanner, so one call per behaviour covers them all
ShouldExcludeCall(name) ==
  /\ phase = "probe"
  /\ ~probe.called
  /\ probe' = [name |-> name, called |-> TRUE,
               result |-> shouldExclude(simplePatterns, regexPatterns, name)]
  /\ UNCHANGED <<fsVars, scannerFields, token, phase, scanVars, cancelledAt, aggregation, removerConfig, removeVars, actorSteps>>

(***************************************************************************)
(* EmptyFolderRemover.removeEmptyFolders / removeDirectory.                *)
(* A filesystem call takes effect when it settles.                         *)
(***************************************************************************)
EmptyStats == [totalScanned |-> 0, totalRemoved |-> 0, totalErrors |-> 0, errors |-> <<>>]

Settled == {"removed", "skipped", "error"}
InFlight == {"readdir", "rmdir"}

\* A plausible slip: the records are not filtered by isEmpty
isEmptyRecordUnfiltered(r) == TRUE

\* directories.filter(dir => dir.isEmpty)
isEmptyRecord(r) == r.isEmpty

\* depthMap.get(depth): the indices of the empty records of that depth, in list order
RECURSIVE groupFrom(_, _, _)
groupFrom(recs, depth, k) ==
  IF k > Len(recs) THEN <<>>
  ELSE (IF isEmptyRecord(recs[k]) /\ recs[k].depth = depth THEN <<k>> ELSE <<>>)
       \o groupFrom(recs, depth, k + 1)

depthGroup(recs, depth) == groupFrom(recs, depth, 1)

RECURSIVE sortDescending(_)
sortDescending(S) ==
  IF S = {} THEN <<>>
  ELSE LET m == CHOOSE x \in S : \A y \in S : y <= x
       IN <<m>> \o sortDescending(S \ {m})

\* A plausible slip: the depth keys are processed shallowest first
RECURSIVE sortAscending(_)
sortAscending(S) ==
  IF S = {} THEN <<>>
  ELSE LET m == CHOOSE x \in S : \A y \in S : y >= x
       IN <<m>> \o sortAscending(S \ {m})

depthKeysAscending(recs) ==
  sortAscending({recs[k].depth : k \in {n \in 1..Len(recs) : isEmptyRecord(recs[n])}})

\* Array.from(depthMap.keys()).sort((a, b) => b - a)
depthKeys(recs) ==
  sortDescending({recs[k].depth : k \in {n \in 1..Len(recs) : isEmptyRecord(recs[n])}})

\* A plausible slip: group.slice(i), the batch runs to the end of the group
sliceToEnd(seq, start, end) ==
  LET len == Len(seq)
      from == IF start < 0 THEN (IF len + start < 0 THEN 0 ELSE len + start)
              ELSE (IF start > len THEN len ELSE start)
  IN SubSeq(seq, from + 1, len)

\* Array.prototype.slice(start, end) on a 1-based sequence
slice(seq, start, end) ==
  LET len == Len(seq)
      clamp(x) == IF x < 0 THEN (IF len + x < 0 THEN 0 ELSE len + x)
                  ELSE (IF x > len THEN len ELSE x)
  IN SubSeq(seq, clamp(start) + 1, clamp(end))

Range(seq) == {seq[k] : k \in 1..Len(seq)}

\* A plausible slip: the token is polled before each depth group only, not
\* before each batch
RECURSIVE loopFromNoBatchCheck(_, _, _, _, _, _)
loopFromNoBatchCheck(recs, ds, di, i, tok, batchSize) ==
  IF di > Len(ds) THEN [kind |-> "return", di |-> di, i |-> 0, batch |-> {}]
  ELSE IF i = 0 /\ tok THEN [kind |-> "return", di |-> di, i |-> 0, batch |-> {}]
  ELSE
    LET group == depthGroup(recs, ds[di])
    IN IF i < Len(group)
         THEN LET batch == slice(group, i, i + batchSize)
              IN IF batch = <<>>
                   THEN [kind |-> "spin", di |-> di, i |-> i, batch |-> {}]
                   ELSE [kind |-> "batch", di |-> di, i |-> i, batch |-> Range(batch)]
       ELSE loopFromNoBatchCheck(recs, ds, di + 1, 0, tok, batchSize)

\* The loops of removeEmptyFolders from the head of the inner loop, at group
\* depths[di] and index i: what happens up to the next await.
\*   "batch": the batch's removeDirectory calls are started
\*   "return": the loops are over and the stats are returned
\*   "spin": a batch size below 1 yields empty batches without end
RECURSIVE loopFrom(_, _, _, _, _, _)
loopFrom(recs, ds, di, i, tok, batchSize) ==
  IF di > Len(ds) THEN [kind |-> "return", di |-> di, i |-> 0, batch |-> {}]
  ELSE IF i = 0 /\ tok THEN [kind |-> "return", di |-> di, i |-> 0, batch |-> {}]
  ELSE
    LET group == depthGroup(recs, ds[di])
    IN IF i < Len(group)
         THEN IF tok THEN [kind |-> "return", di |-> di, i |-> i, batch |-> {}]
              ELSE LET batch == slice(group, i, i + batchSize)
                   IN IF batch = <<>>
                        THEN [kind |-> "spin", di |-> di, i |-> i, batch |-> {}]
                        ELSE [kind |-> "batch", di |-> di, i |-> i, batch |-> Range(batch)]
       ELSE loopFrom(recs, ds, di + 1, 0, tok, batchSize)

RemoveState ==
  [taskPc |-> taskPc, stats |-> stats, progress |-> progress, dirs |-> fsDirs,
   unreadable |-> unreadable, di |-> depthIdx, i |-> batchStart, phase |-> phase,
   sinkThrows |-> sinkThrows, rejected |-> rejected]

\* A plausible slip: token.isCancellationRequested is never polled by the loops
enterLoopIgnoringToken(R, recs, ds, di, i, tok, batchSize) ==
  LET step == loopFrom(recs, ds, di, i, FALSE, batchSize)
  IN [R EXCEPT
        !.di = step.di,
        !.i = step.i,
        !.taskPc = [k \in DOMAIN R.taskPc |-> IF k \in step.batch THEN "readdir" ELSE @[k]],
        !.phase = CASE step.kind = "batch" -> "removing"
                    [] step.kind = "return" -> "done"
                    [] OTHER -> "spinning"]

\* Enter the loops at (di, i): start the next batch, or return
enterLoop(R, recs, ds, di, i, tok, batchSize) ==
  LET step == loopFrom(recs, ds, di, i, tok, batchSize)
  IN [R EXCEPT
        !.di = step.di,
        !.i = step.i,
        !.taskPc = [k \in DOMAIN R.taskPc |-> IF k \in step.batch THEN "readdir" ELSE @[k]],
        !.phase = CASE step.kind = "batch" -> "removing"
                    [] step.kind = "return" -> "done"
                    [] OTHER -> "spinning"]

\* A plausible slip: Promise.all over calls that rethrow, so that the first
\* failure of a batch ends the whole operation
afterSettleAbortOnError(R, recs, ds, tok, batchSize) ==
  IF \E k \in DOMAIN R.taskPc : R.taskPc[k] = "error" THEN [R EXCEPT !.phase = "done"]
  ELSE IF \E k \in DOMAIN R.taskPc : R.taskPc[k] \in InFlight THEN R
  ELSE enterLoop(R, recs, ds, R.di, R.i + batchSize, tok, batchSize)

\* A plausible slip: await Promise.all(promises), which rejects as soon as one
\* removeDirectory promise has rejected, and removeEmptyFolders with it
afterSettleAll(R, recs, ds, tok, batchSize) ==
  IF R.rejected # {} THEN [R EXCEPT !.phase = "threw"]
  ELSE IF \E k \in DOMAIN R.taskPc : R.taskPc[k] \in InFlight THEN R
  ELSE enterLoop(R, recs, ds, R.di, R.i + batchSize, tok, batchSize)

\* await Promise.allSettled(promises): once no call of the batch is in flight,
\* i += batchSize and the loops go on
afterSettle(R, recs, ds, tok, batchSize) ==
  IF \E k \in DOMAIN R.taskPc : R.taskPc[k] \in InFlight THEN R
  ELSE enterLoop(R, recs, ds, R.di, R.i + batchSize, tok, batchSize)

\* onProgress(message): the sink is handed the message; whether the call then
\* throws is R.sinkThrows
onProgress(R, message) == [R EXCEPT !.progress = Append(@, message)]

\* removeDirectory's catch block: the error is counted and logged, then the sink
\* is called; if the sink throws there, the promise of removeDirectory rejects
catchBlock(R, recs, k, reason) ==
  LET T == onProgress(
             [R EXCEPT
                !.stats.totalErrors = @ + 1,
                !.stats.errors = Append(@, [path |-> recs[k].path, reason |-> reason])],
             [kind |-> "Error", name |-> basename(recs[k].path)])
  IN IF R.sinkThrows THEN [T EXCEPT !.rejected = @ \cup {k}] ELSE T

\* fs.readdir or fs.rmdir failed: the attempt ends in the catch block
catchError(R, recs, k, reason) ==
  catchBlock([R EXCEPT !.taskPc[k] = "error"], recs, k, reason)

\* A plausible slip, a lost update: the counter is read when the attempts of the
\* depth group start and written back, plus one, after the awaits
countRemovedStale(R, recs, k, dry) ==
  LET before == Cardinality({j \in DOMAIN R.taskPc :
                               R.taskPc[j] = "removed" /\ recs[j].depth # recs[k].depth})
      T == onProgress(
             [R EXCEPT !.taskPc[k] = "removed", !.stats.totalRemoved = before + 1],
             [kind |-> IF dry THEN "WouldRemove" ELSE "Removed",
              name |-> basename(recs[k].path)])
  IN IF R.sinkThrows THEN catchBlock(T, recs, k, "sink") ELSE T

\* The directory was removed, or would have been; a sink that throws on the
\* message leads into the catch block
countRemoved(R, recs, k, dry) ==
  LET T == onProgress(
             [R EXCEPT !.taskPc[k] = "removed", !.stats.totalRemoved = @ + 1],
             [kind |-> IF dry THEN "WouldRemove" ELSE "Removed",
              name |-> basename(recs[k].path)])
  IN IF R.sinkThrows THEN catchBlock(T, recs, k, "sink") ELSE T

\* The directory is no longer empty: only the sink is told
skipDirectory(R, recs, k) ==
  LET T == onProgress([R EXCEPT !.taskPc[k] = "skipped"],
                      [kind |-> "Skipped", name |-> basename(recs[k].path)])
  IN IF R.sinkThrows THEN catchBlock(T, recs, k, "sink") ELSE T

\* A plausible slip: the re-listing is not looked at
relistedEmptyUnchecked(dirs, files, p) == TRUE

\* items.length === 0 for the re-listing of p
relistedEmpty(dirs, files, p) == readdirIsEmpty(dirs, files, p)

\* A plausible slip: config.dryRun is not consulted before fs.rmdir
removeReaddirSettledIgnoringDryRun(R, recs, files, k, dry) ==
  LET p == recs[k].path
  IN IF readdirFails(R.dirs, R.unreadable, p)
       THEN catchError(R, recs, k, IF p \in R.dirs THEN "EACCES" ELSE "ENOENT")
     ELSE IF relistedEmpty(R.dirs, files, p)
       THEN [R EXCEPT !.taskPc[k] = "rmdir"]
     ELSE skipDirectory(R, recs, k)

\* removeDirectory when its readdir settles
removeReaddirSettled(R, recs, files, k, dry) ==
  LET p == recs[k].path
  IN IF readdirFails(R.dirs, R.unreadable, p)
       THEN catchError(R, recs, k, IF p \in R.dirs THEN "EACCES" ELSE "ENOENT")
     ELSE IF relistedEmpty(R.dirs, files, p)
       THEN IF ~dry THEN [R EXCEPT !.taskPc[k] = "rmdir"]
            ELSE countRemoved(R, recs, k, dry)
     ELSE skipDirectory(R, recs, k)

\* A plausible slip: a recursive removal (fs.rm with recursive) instead of rmdir
rmdirRecursive(dirs, files, p) ==
  IF p \notin dirs THEN [ok |-> FALSE, reason |-> "ENOENT", dirs |-> dirs]
  ELSE [ok |-> TRUE, reason |-> "", dirs |-> {q \in dirs : ~IsPrefix(p, q)}]

\* fs.rmdir: removes one directory, and fails unless it exists and has no entry
rmdir(dirs, files, p) ==
  IF p \notin dirs THEN [ok |-> FALSE, reason |-> "ENOENT", dirs |-> dirs]
  ELSE IF ~readdirIsEmpty(dirs, files, p)
    THEN [ok |-> FALSE, reason |-> "ENOTEMPTY", dirs |-> dirs]
  ELSE [ok |-> TRUE, reason |-> "", dirs |-> dirs \ {p}]

\* removeDirectory when its rmdir settles
removeRmdirSettled(R, recs, files, k, dry) ==
  LET res == rmdir(R.dirs, files, recs[k].path)
  IN IF res.ok
       THEN countRemoved([R EXCEPT !.dirs = res.dirs], recs, k, dry)
     ELSE catchError(R, recs, k, res.reason)

ApplyRemove(R) ==
  \E Q \in {R} :
    /\ taskPc' = Q.taskPc
    /\ stats' = Q.stats
    /\ progress' = Q.progress
    /\ rejected' = Q.rejected
    /\ fsDirs' = Q.dirs
    /\ depthIdx' = Q.di
    /\ batchStart' = Q.i
    /\ phase' = Q.phase

\* A plausible slip: the count is taken after the filter
countScannedEmptyOnly(recs) == Cardinality({k \in 1..Len(recs) : isEmptyRecord(recs[k])})

\* this.stats.totalScanned = directories.length
countScanned(recs) == Len(recs)

\* The caller calls removeEmptyFolders(directories, onProgress, token), with the
\* scan's result or with a list of its own
RemoveCall ==
  /\ phase \in {"scanned", "ready"}
  /\ LET recs == IF phase = "scanned" THEN scanResult ELSE inputDirectories
         ds == depthKeys(recs)
         R0 == [RemoveState EXCEPT
                  !.taskPc = [k \in 1..Len(recs) |-> "pending"],
                  !.stats.totalScanned = countScanned(recs)]
     IN /\ inputDirectories' = recs
        /\ depths' = ds
        /\ ApplyRemove(enterLoop(R0, recs, ds, 1, 0, token, maxConcurrency))
  /\ UNCHANGED <<fsFiles, unreadable, initialDirs, scannerFields, token, scanVars,
                 cancelledAt, probe, aggregation,
                 removerConfig, returned, actorSteps>>

\* return this.stats: what every call of one remover returns is the one object
\* made by the constructor, so the value call c returned reads as stats does now
returnedStats(c) == stats

\* The caller calls removeEmptyFolders once more on the same remover, with the
\* same list and a sink of the same kind, after the previous call has returned
RemoveCallAgain ==
  /\ phase = "done"
  /\ Len(returned) < MaxCalls - 1
  /\ returned' = Append(returned, stats)
  /\ LET recs == inputDirectories
         ds == depthKeys(recs)
         R0 == [RemoveState EXCEPT
                  !.taskPc = [k \in 1..Len(recs) |-> "pending"],
                  !.progress = <<>>,
                  !.rejected = {},
                  !.stats.totalScanned = countScanned(recs)]
     IN /\ depths' = ds
        /\ ApplyRemove(enterLoop(R0, recs, ds, 1, 0, token, maxConcurrency))
  /\ UNCHANGED <<fsFiles, unreadable, initialDirs, scannerFields, token, scanVars,
                 cancelledAt, probe, aggregation,
                 removerConfig, inputDirectories, actorSteps>>

\* The re-listing of record k's directory arrives
RemoveReaddirSettled(k) ==
  /\ phase = "removing"
  /\ k \in DOMAIN taskPc
  /\ taskPc[k] = "readdir"
  /\ ApplyRemove(afterSettle(
       removeReaddirSettled(RemoveState, inputDirectories, fsFiles, k, dryRun),
       inputDirectories, depths, token, maxConcurrency))
  /\ UNCHANGED <<fsFiles, unreadable, initialDirs, scannerFields, token, scanVars,
                 cancelledAt, probe, aggregation,
                 removerConfig, inputDirectories, depths, returned, actorSteps>>

\* The rmdir of record k's directory settles
RemoveRmdirSettled(k) ==
  /\ phase = "removing"
  /\ k \in DOMAIN taskPc
  /\ taskPc[k] = "rmdir"
  /\ ApplyRemove(afterSettle(
       removeRmdirSettled(RemoveState, inputDirectories, fsFiles, k, dryRun),
       inputDirectories, depths, token, maxConcurrency))
  /\ UNCHANGED <<fsFiles, unreadable, initialDirs, scannerFields, token, scanVars,
                 cancelledAt, probe, aggregation,
                 removerConfig, inputDirectories, depths, returned, actorSteps>>

(***************************************************************************)
(* The EmptyFolderRemover inlined in extension.ts.  Its loops are those of *)
(* core.ts line for line (extension.ts:179-201, core.ts:159-181) and are   *)
(* modelled by the same operators; what differs is the sink, a             *)
(* ProgressTracker whose update(message) reports to the host and returns,  *)
(* and removeDirectory, which has no else branch for a directory that is   *)
(* no longer empty.  The tracker's counters (processed, total) only        *)
(* decorate the reported message with a percentage and are not kept.       *)
(***************************************************************************)
\* progressTracker.update(message): this.progress.report({message, increment})
progressTrackerUpdate(R, message) == [R EXCEPT !.progress = Append(@, message)]

\* removeDirectory's catch block in the copy
extCatchBlock(R, recs, k, reason) ==
  progressTrackerUpdate(
    [R EXCEPT
       !.taskPc[k] = "error",
       !.stats.totalErrors = @ + 1,
       !.stats.errors = Append(@, [path |-> recs[k].path, reason |-> reason])],
    [kind |-> "Error", name |-> basename(recs[k].path)])

\* this.stats.totalRemoved++ and the tracker's update in the copy
extCountRemoved(R, recs, k, dry) ==
  progressTrackerUpdate(
    [R EXCEPT !.taskPc[k] = "removed", !.stats.totalRemoved = @ + 1],
    [kind |-> IF dry THEN "WouldRemove" ELSE "Removed",
     name |-> basename(recs[k].path)])

\* A plausible slip: the copy, having no branch for it, treats a directory that
\* is no longer empty as a failure
extSkipDirectoryAsError(R, recs, k) == extCatchBlock(R, recs, k, "ENOTEMPTY")

\* items.length === 0 is false in the copy: the if has no else, removeDirectory
\* returns and nothing is reported
extSkipDirectory(R, recs, k) == [R EXCEPT !.taskPc[k] = "skipped"]

\* The copy's removeDirectory when its readdir settles
extRemoveReaddirSettled(R, recs, files, k, dry) ==
  LET p == recs[k].path
  IN IF readdirFails(R.dirs, R.unreadable, p)
       THEN extCatchBlock(R, recs, k, IF p \in R.dirs THEN "EACCES" ELSE "ENOENT")
     ELSE IF readdirIsEmpty(R.dirs, files, p)
       THEN IF ~dry THEN [R EXCEPT !.taskPc[k] = "rmdir"]
            ELSE extCountRemoved(R, recs, k, dry)
     ELSE extSkipDirectory(R, recs, k)

\* The copy's removeDirectory when its rmdir settles
extRemoveRmdirSettled(R, recs, files, k, dry) ==
  LET res == rmdir(R.dirs, files, recs[k].path)
  IN IF res.ok
       THEN extCountRemoved([R EXCEPT !.dirs = res.dirs], recs, k, dry)
     ELSE extCatchBlock(R, recs, k, res.reason)

\* The copy's removeEmptyFolders up to its first await: the filter, setTotal,
\* totalScanned, the depth groups, and the loops entered
extRemoveEmptyFolders(R, recs, tok, batchSize) ==
  LET total == Cardinality({k \in 1..Len(recs) : recs[k].isEmpty})
      ds == depthKeys(recs)
      R0 == [R EXCEPT
               !.taskPc = [k \in 1..Len(recs) |-> "pending"],
               !.stats.totalScanned = Len(recs)]
  IN enterLoop(R0, recs, ds, 1, 0, tok, batchSize)

\* What the claim of refinement compares: the attempts' outcomes, the stats, the
\* directories on disk and the position in the loops
Compared(R) ==
  [taskPc |-> R.taskPc, stats |-> R.stats, dirs |-> R.dirs, di |-> R.di, i |-> R.i,
   phase |-> R.phase]

(***************************************************************************)
(* createEmptyStats and aggregateStats.  A Stats object is its value; the  *)
(* objects of the argument list are carried along, so that a write to one  *)
(* of them shows.                                                          *)
(***************************************************************************)
createEmptyStats ==
  [totalScanned |-> 0, totalRemoved |-> 0, totalErrors |-> 0, duration |-> 0,
   errors |-> <<>>]

\* The for loop of aggregateStats from element k on
RECURSIVE aggregateFrom(_, _, _)
aggregateFrom(aggregated, statsList, k) ==
  IF k > Len(statsList) THEN aggregated
  ELSE aggregateFrom(
         [aggregated EXCEPT
            !.totalScanned = @ + statsList[k].totalScanned,
            !.totalRemoved = @ + statsList[k].totalRemoved,
            !.totalErrors = @ + statsList[k].totalErrors,
            !.errors = @ \o statsList[k].errors],
         statsList, k + 1)

\* A plausible slip: statsList.reduce without an initial value, the first
\* element is the accumulator and is written to
aggregateStatsIntoFirst(statsList) ==
  IF statsList = <<>> THEN [result |-> createEmptyStats, statsList |-> statsList]
  ELSE LET acc == aggregateFrom(statsList[1], statsList, 2)
       IN [result |-> acc, statsList |-> [statsList EXCEPT ![1] = acc]]

\* aggregateStats(statsList): the value returned, and the argument's objects
\* as the call leaves them
aggregateStats(statsList) ==
  [result |-> aggregateFrom(createEmptyStats, statsList, 1), statsList |-> statsList]

AggregateCall ==
  /\ phase = "aggregate"
  /\ ~aggregation.called
  /\ LET out == aggregateStats(aggregation.args)
     IN aggregation' = [called |-> TRUE, args |-> aggregation.args,
                        statsList |-> out.statsList, result |-> out.result]
  /\ UNCHANGED <<fsVars, scannerFields, token, phase, scanVars, cancelledAt, probe,
                 removerConfig, removeVars, actorSteps>>

(***************************************************************************)
(* The external actor: another process that adds entries at any moment.    *)
(* What it does before removeEmptyFolders is called is part of the         *)
(* initial filesystem, so it acts while the removal runs.                  *)
(***************************************************************************)
ActorAddFile(p) ==
  /\ phase = "removing"
  /\ actorSteps < MaxActorSteps
  /\ p \in fsDirs
  /\ p \notin fsFiles
  /\ fsFiles' = fsFiles \cup {p}
  /\ actorSteps' = actorSteps + 1
  /\ UNCHANGED <<fsDirs, unreadable, initialDirs, scannerFields, token, phase, scanVars, cancelledAt,
                 probe, aggregation, removerConfig, removeVars>>

ActorMkdir(p) ==
  /\ phase = "removing"
  /\ actorSteps < MaxActorSteps
  /\ p \notin fsDirs
  /\ p = RootPath \/ dirname(p) \in fsDirs
  /\ fsDirs' = fsDirs \cup {p}
  /\ actorSteps' = actorSteps + 1
  /\ UNCHANGED <<fsFiles, unreadable, initialDirs, scannerFields, token, phase, scanVars, cancelledAt,
                 probe, aggregation, removerConfig, removeVars>>

(***************************************************************************)
(* Initial states.                                                         *)
(***************************************************************************)
ParentClosed(dirs) == \A p \in dirs : p = RootPath \/ dirname(p) \in dirs

Trees == {dirs \in SUBSET Paths :
            /\ ParentClosed(dirs)
            /\ Cardinality(dirs) <= MaxDirs}

ScanIdle ==
  /\ scanCalls = <<>>
  /\ directories = <<>>
  /\ emptyDirs = {}
  /\ scanResult = <<>>
  /\ cancelledAt = -1

RemoveIdle ==
  /\ depths = <<>>
  /\ depthIdx = 0
  /\ batchStart = 0
  /\ taskPc = <<>>
  /\ stats = EmptyStats
  /\ progress = <<>>
  /\ rejected = {}
  /\ returned = <<>>
  /\ actorSteps = 0

ConcurrencyValues == {1, 2}

Constructed(patternLists) ==
  /\ excludePatterns \in patternLists
  /\ simplePatterns = constructSimplePatterns(excludePatterns)
  /\ regexPatterns = constructRegexPatterns(excludePatterns)

InitFs ==
  /\ fsDirs \in Trees
  /\ initialDirs = fsDirs
  /\ fsFiles \in SUBSET fsDirs
  /\ unreadable \in {u \in SUBSET fsDirs : Cardinality(u) <= MaxUnreadable}

\* shouldExclude alone: a scanner constructed from a pattern list, then called
InitExclude ==
  /\ Constructed(ProbePatternLists)
  /\ fsDirs = {} /\ fsFiles = {} /\ unreadable = {} /\ initialDirs = {}
  /\ token = FALSE
  /\ phase = "probe"
  /\ ScanIdle
  /\ probe = NoProbe
  /\ aggregation = NoAggregation
  /\ maxConcurrency = 1 /\ dryRun = FALSE /\ sinkThrows = FALSE
  /\ inputDirectories = <<>>
  /\ RemoveIdle

NextExclude == \E name \in ProbeNames : ShouldExcludeCall(name)

SpecExclude == InitExclude /\ [][NextExclude]_vars

\* scanDirectories on any tree, with cancellation at any moment
InitScan ==
  /\ Constructed(TreePatternLists)
  /\ InitFs
  /\ token = FALSE
  /\ phase = "idle"
  /\ ScanIdle
  /\ probe = NoProbe
  /\ aggregation = NoAggregation
  /\ maxConcurrency = 1 /\ dryRun = FALSE /\ sinkThrows = FALSE
  /\ inputDirectories = <<>>
  /\ RemoveIdle

NextScan ==
  \/ ScanCall
  \/ \E p \in Paths : ScanReaddirSettled(p)
  \/ Cancel

SpecScan == InitScan /\ [][NextScan]_vars

\* removeEmptyFolders on any record list, with an external actor and cancellation
RemovePaths == {p \in Paths : Len(p) <= 2}
RemoveTrees == {dirs \in SUBSET RemovePaths : ParentClosed(dirs)}
RecordUniverse == [path : RemovePaths, depth : {0, 1}, isEmpty : BOOLEAN]
RecordLists == SeqsFromTo(RecordUniverse, 0, MaxRecords)

InitRemove ==
  /\ Constructed({<<>>})
  /\ fsDirs \in RemoveTrees
  /\ initialDirs = fsDirs
  /\ fsFiles \in SUBSET fsDirs
  /\ unreadable = {}
  /\ token = FALSE
  /\ phase = "ready"
  /\ ScanIdle
  /\ probe = NoProbe
  /\ aggregation = NoAggregation
  /\ maxConcurrency \in ConcurrencyValues
  /\ dryRun \in BOOLEAN
  /\ sinkThrows = FALSE
  /\ inputDirectories \in RecordLists
  /\ RemoveIdle

NextRemove ==
  \/ RemoveCall
  \/ \E k \in DOMAIN taskPc : RemoveReaddirSettled(k)
  \/ \E k \in DOMAIN taskPc : RemoveRmdirSettled(k)
  \/ Cancel
  \/ \E p \in RemovePaths : ActorAddFile(p)
  \/ \E p \in RemovePaths : ActorMkdir(p)

SpecRemove == InitRemove /\ [][NextRemove]_vars

\* The concurrent tasks of either operation: a scan of any tree, or a removal
\* over any record list
InitTasks == InitScan \/ InitRemove

NextTasks ==
  \/ ScanCall
  \/ \E p \in Paths : ScanReaddirSettled(p)
  \/ Cancel
  \/ phase = "ready" /\ RemoveCall
  \/ \E k \in DOMAIN taskPc : RemoveReaddirSettled(k)
  \/ \E k \in DOMAIN taskPc : RemoveRmdirSettled(k)
  \/ \E p \in RemovePaths : ActorAddFile(p)
  \/ \E p \in RemovePaths : ActorMkdir(p)

SpecTasks == InitTasks /\ [][NextTasks]_vars

\* Either operation when every filesystem call that has been issued completes:
\* a pending readdir or rmdir is settled by the runtime sooner or later
FsCallCompletes ==
  \/ \E p \in Paths : ScanReaddirSettled(p)
  \/ \E k \in DOMAIN taskPc : RemoveReaddirSettled(k)
  \/ \E k \in DOMAIN taskPc : RemoveRmdirSettled(k)

\* A scan of any tree with at most one directory that holds files or cannot be
\* listed and without exclude patterns, or a removal over any list of
\* records marked isEmpty = true on the full two-level tree
InitCallsComplete ==
  /\ Constructed({<<>>})
  /\ token = FALSE
  /\ ScanIdle
  /\ probe = NoProbe
  /\ aggregation = NoAggregation
  /\ sinkThrows = FALSE
  /\ RemoveIdle
  /\ \/ /\ InitFs
        /\ Cardinality(fsFiles) + Cardinality(unreadable) <= 1
        /\ phase = "idle"
        /\ maxConcurrency = 1 /\ dryRun = FALSE
        /\ inputDirectories = <<>>
     \/ /\ fsDirs = RemovePaths
        /\ initialDirs = fsDirs
        /\ fsFiles = {}
        /\ unreadable = {}
        /\ phase = "ready"
        /\ maxConcurrency \in ConcurrencyValues
        /\ dryRun \in BOOLEAN
        /\ inputDirectories \in {l \in RecordLists : \A k \in DOMAIN l : l[k].isEmpty}

NextCallsComplete ==
  \/ ScanCall
  \/ \E p \in Paths : ScanReaddirSettled(p)
  \/ Cancel
  \/ phase = "ready" /\ RemoveCall
  \/ \E k \in DOMAIN taskPc : RemoveReaddirSettled(k)
  \/ \E k \in DOMAIN taskPc : RemoveRmdirSettled(k)

SpecCallsComplete ==
  InitCallsComplete /\ [][NextCallsComplete]_vars /\ WF_vars(FsCallCompletes)

\* removeEmptyFolders with the maxConcurrency that getConfiguration hands over:
\* config.get('maxConcurrency', 10) returns the user's setting as it is, so a
\* zero or a negative number reaches batchSize
UnvalidatedConcurrency == {-1, 0, 1}

InitUnvalidated ==
  /\ Constructed({<<>>})
  /\ fsDirs \in RemoveTrees
  /\ initialDirs = fsDirs
  /\ fsFiles \in SUBSET fsDirs
  /\ unreadable = {}
  /\ token = FALSE
  /\ phase = "ready"
  /\ ScanIdle
  /\ probe = NoProbe
  /\ aggregation = NoAggregation
  /\ maxConcurrency \in UnvalidatedConcurrency
  /\ dryRun \in BOOLEAN
  /\ sinkThrows = FALSE
  /\ inputDirectories \in RecordLists
  /\ RemoveIdle

\* Cancellation is never requested
NextUnvalidated ==
  \/ RemoveCall
  \/ \E k \in DOMAIN taskPc : RemoveReaddirSettled(k)
  \/ \E k \in DOMAIN taskPc : RemoveRmdirSettled(k)

SpecUnvalidated == InitUnvalidated /\ [][NextUnvalidated]_vars

\* removeEmptyFolders over the scan result of a chain of nested directories
\* that held no file when it was scanned: one record per directory, deepest
\* first, all with isEmpty = true.  Since the scan some directories may have
\* received a file or lost their read permission, and an external actor is at
\* work during the removal.
ChainPath(n) == [k \in 1..n |-> RootName]

ChainPaths == {ChainPath(n) : n \in 1..(MaxDepth + 1)}

ChainRecords ==
  [k \in 1..(MaxDepth + 1) |->
     [path |-> ChainPath(MaxDepth + 2 - k), depth |-> MaxDepth + 1 - k, isEmpty |-> TRUE]]

InitChain ==
  /\ Constructed({<<>>})
  /\ fsDirs = ChainPaths
  /\ initialDirs = fsDirs
  /\ fsFiles \in SUBSET fsDirs
  /\ unreadable \in {u \in SUBSET fsDirs : Cardinality(u) <= MaxUnreadable}
  /\ token = FALSE
  /\ phase = "ready"
  /\ ScanIdle
  /\ probe = NoProbe
  /\ aggregation = NoAggregation
  /\ maxConcurrency \in ConcurrencyValues
  /\ dryRun \in BOOLEAN
  /\ sinkThrows = FALSE
  /\ inputDirectories = ChainRecords
  /\ RemoveIdle

NextChain ==
  \/ RemoveCall
  \/ \E k \in DOMAIN taskPc : RemoveReaddirSettled(k)
  \/ \E k \in DOMAIN taskPc : RemoveRmdirSettled(k)
  \/ \E p \in Paths : ActorAddFile(p)
  \/ \E p \in Paths : ActorMkdir(p)

SpecChain == InitChain /\ [][NextChain]_vars

\* removeEmptyFolders with a sink that may throw, and an external actor
InitSink ==
  /\ Constructed({<<>>})
  /\ fsDirs \in RemoveTrees
  /\ initialDirs = fsDirs
  /\ fsFiles \in SUBSET fsDirs
  /\ unreadable = {}
  /\ token = FALSE
  /\ phase = "ready"
  /\ ScanIdle
  /\ probe = NoProbe
  /\ aggregation = NoAggregation
  /\ maxConcurrency \in ConcurrencyValues
  /\ dryRun \in BOOLEAN
  /\ sinkThrows \in BOOLEAN
  /\ inputDirectories \in RecordLists
  /\ RemoveIdle

NextSink ==
  \/ RemoveCall
  \/ \E k \in DOMAIN taskPc : RemoveReaddirSettled(k)
  \/ \E k \in DOMAIN taskPc : RemoveRmdirSettled(k)
  \/ \E p \in RemovePaths : ActorAddFile(p)
  \/ \E p \in RemovePaths : ActorMkdir(p)

SpecSink == InitSink /\ [][NextSink]_vars

\* removeEmptyFolders called again on the remover that has returned
NextReuse ==
  \/ RemoveCall
  \/ \E k \in DOMAIN taskPc : RemoveReaddirSettled(k)
  \/ \E k \in DOMAIN taskPc : RemoveRmdirSettled(k)
  \/ RemoveCallAgain

SpecReuse == InitRemove /\ [][NextReuse]_vars

\* scanDirectories, then removeEmptyFolders on its result
InitPipe ==
  /\ Constructed(TreePatternLists)
  /\ InitFs
  /\ token = FALSE
  /\ phase = "idle"
  /\ ScanIdle
  /\ probe = NoProbe
  /\ aggregation = NoAggregation
  /\ maxConcurrency \in ConcurrencyValues
  /\ dryRun \in BOOLEAN
  /\ sinkThrows = FALSE
  /\ inputDirectories = <<>>
  /\ RemoveIdle

NextPipe ==
  \/ ScanCall
  \/ \E p \in Paths : ScanReaddirSettled(p)
  \/ RemoveCall
  \/ \E k \in DOMAIN taskPc : RemoveReaddirSettled(k)
  \/ \E k \in DOMAIN taskPc : RemoveRmdirSettled(k)
  \/ Cancel

SpecPipe == InitPipe /\ [][NextPipe]_vars

\* The command is run once more after a run has finished: activate's handler
\* makes a new DirectoryScanner and, after the scan, a new EmptyFolderRemover
\* (whose stats start from zero), under a new token.  The stats the finished
\* run returned are kept in returned.
RunAgain ==
  /\ phase = "done"
  /\ Len(returned) < MaxCalls - 1
  /\ returned' = Append(returned, stats)
  /\ LET entry == scanRecursiveEntry(token, simplePatterns, regexPatterns, RootPath)
         S0 == [calls |-> [q \in {RootPath} |-> newCall(entry, 0)],
                directories |-> <<>>, emptyDirs |-> {}]
     IN ApplyScan(S0)
  /\ inputDirectories' = <<>>
  /\ depths' = <<>>
  /\ depthIdx' = 0
  /\ batchStart' = 0
  /\ taskPc' = <<>>
  /\ stats' = EmptyStats
  /\ progress' = <<>>
  /\ rejected' = {}
  /\ UNCHANGED <<fsVars, scannerFields, token, cancelledAt, probe, aggregation,
                 removerConfig, actorSteps>>

\* scanDirectories, then removeEmptyFolders on its result, and the same again;
\* nobody else modifies the filesystem and cancellation is never requested
NextTwice ==
  \/ ScanCall
  \/ \E p \in Paths : ScanReaddirSettled(p)
  \/ RemoveCall
  \/ \E k \in DOMAIN taskPc : RemoveReaddirSettled(k)
  \/ \E k \in DOMAIN taskPc : RemoveRmdirSettled(k)
  \/ RunAgain

SpecTwice == InitPipe /\ [][NextTwice]_vars

\* aggregateStats alone, on any list of Stats values
ErrorLists == {<<>>, <<"e1">>, <<"e2", "e3">>}
StatsUniverse ==
  [totalScanned : 0..MaxCount, totalRemoved : 0..MaxCount, totalErrors : 0..MaxCount,
   duration : {1}, errors : ErrorLists]
StatsLists == SeqsFromTo(StatsUniverse, 0, MaxStats)

InitAggregate ==
  /\ Constructed({<<>>})
  /\ fsDirs = {} /\ fsFiles = {} /\ unreadable = {} /\ initialDirs = {}
  /\ token = FALSE
  /\ phase = "aggregate"
  /\ ScanIdle
  /\ probe = NoProbe
  /\ \E list \in StatsLists :
       aggregation = [called |-> FALSE, args |-> list, statsList |-> list, result |-> <<>>]
  /\ maxConcurrency = 1 /\ dryRun = FALSE /\ sinkThrows = FALSE
  /\ inputDirectories = <<>>
  /\ RemoveIdle

NextAggregate == AggregateCall

SpecAggregate == InitAggregate /\ [][NextAggregate]_vars

(***************************************************************************)
(* Definitions the properties are stated with.                             *)
(***************************************************************************)
Marked(recs, d) == \E k \in 1..Len(recs) : recs[k].path = d /\ recs[k].isEmpty

RecordsOf(recs, d) == {k \in 1..Len(recs) : recs[k].path = d}

SubtreeHasFile(d) == \E f \in fsFiles : IsPrefix(d, f)

IsExcludedName(name) == shouldExclude(simplePatterns, regexPatterns, name)

NoneExcluded(dirs) == \A d \in dirs : ~IsExcludedName(basename(d))

StaticScanDone == phase = "scanned" /\ ~token /\ unreadable = {}

SameLetter(c, d) == c = d \/ {c, d} = {"a", "A"}

EqualIgnoringCase(s, t) ==
  Len(s) = Len(t) /\ \A k \in 1..Len(s) : SameLetter(s[k], t[k])

\* Wildcard matching as the documentation describes it: '*' stands for any run
\* of characters, every other character for itself, case ignored
RECURSIVE GlobMatches(_, _)
GlobMatches(pat, name) ==
  IF pat = <<>> THEN name = <<>>
  ELSE IF Head(pat) = "*"
    THEN GlobMatches(Tail(pat), name) \/ (name # <<>> /\ GlobMatches(pat, Tail(name)))
  ELSE name # <<>> /\ SameLetter(Head(pat), Head(name))
                   /\ GlobMatches(Tail(pat), Tail(name))

NoStarPatterns == \A i \in 1..Len(excludePatterns) : ~includesStar(excludePatterns[i])

(***************************************************************************)
(* C1: removeEmptyFolders never deletes a directory that is not in its     *)
(* input list with isEmpty = true: no step takes such a directory off the  *)
(* disk, whatever the list, the filesystem and the interleaving.           *)
(***************************************************************************)
C1_OnlyMarkedDeleted ==
  [][\A d \in fsDirs \ fsDirs' : Marked(inputDirectories, d)]_vars

\* A run deleted a marked directory and left an unmarked, entry-free one alone
C1_Witness ==
  /\ phase = "done"
  /\ ~dryRun
  /\ stats.totalRemoved >= 1
  /\ \E d \in initialDirs : d \notin fsDirs
  /\ \E k \in 1..Len(inputDirectories) :
       /\ ~inputDirectories[k].isEmpty
       /\ ~Marked(inputDirectories, inputDirectories[k].path)
       /\ inputDirectories[k].path \in fsDirs
       /\ readdirIsEmpty(fsDirs, fsFiles, inputDirectories[k].path)

(***************************************************************************)
(* C2: only completely empty folders are removed: a directory leaves the   *)
(* disk only in a step at whose start it has no entry, and no file is      *)
(* ever deleted, while an external actor adds entries at any moment.       *)
(***************************************************************************)
C2_OnlyEmptyDeleted ==
  [][/\ \A d \in fsDirs \ fsDirs' : ChildDirs(fsDirs, d) = {} /\ d \notin fsFiles
     /\ \A f \in fsFiles : f \in fsFiles' /\ f \in fsDirs']_vars

\* The actor filled a directory between its re-listing and its rmdir, which then
\* refused; another directory was removed
C2_Witness ==
  /\ phase = "done"
  /\ actorSteps >= 1
  /\ stats.totalRemoved >= 1
  /\ \E d \in initialDirs : d \notin fsDirs
  /\ \E e \in 1..Len(stats.errors) : stats.errors[e].reason = "ENOTEMPTY"

(***************************************************************************)
(* C3: children before parents: when the attempt on a record of depth d    *)
(* has started, every empty record of greater depth has been attempted     *)
(* and has settled (removed, skipped or errored), for every input order.   *)
(***************************************************************************)
C3_DeeperSettledFirst ==
  \A k \in DOMAIN taskPc : \A j \in DOMAIN taskPc :
    ( /\ taskPc[k] # "pending"
      /\ inputDirectories[j].isEmpty
      /\ inputDirectories[j].depth > inputDirectories[k].depth )
    => taskPc[j] \in Settled

\* The shallower record comes first in the input, and is in flight after the
\* deeper one has settled
C3_Witness ==
  \E k \in DOMAIN taskPc : \E j \in DOMAIN taskPc :
    /\ k < j
    /\ inputDirectories[j].depth > inputDirectories[k].depth
    /\ taskPc[k] \in InFlight
    /\ taskPc[j] \in Settled

(***************************************************************************)
(* C4: cascade removal end to end: on a static tree with nothing excluded, *)
(* everything readable, no cancellation and no dry run, the scan followed  *)
(* by the removal deletes exactly the directories whose subtree holds no   *)
(* file, and returns their number as totalRemoved with totalErrors = 0.    *)
(***************************************************************************)
C4_CascadeRemoval ==
  ( /\ phase = "done"
    /\ ~token
    /\ unreadable = {}
    /\ ~dryRun
    /\ maxConcurrency >= 1
    /\ NoneExcluded(initialDirs) )
  => /\ fsDirs = {d \in initialDirs : SubtreeHasFile(d)}
     /\ stats.totalRemoved = Cardinality({d \in initialDirs : ~SubtreeHasFile(d)})
     /\ stats.totalErrors = 0
     /\ stats.errors = <<>>

\* A chain of two empty directories went, and a directory with a file stayed
C4_Witness ==
  /\ phase = "done"
  /\ ~token
  /\ unreadable = {}
  /\ ~dryRun
  /\ NoneExcluded(initialDirs)
  /\ fsDirs # {}
  /\ \E d \in initialDirs \ fsDirs : \E c \in initialDirs \ fsDirs : dirname(c) = d
  /\ stats.totalRemoved >= 2

(***************************************************************************)
(* C5: scanner verdict: on a static tree with nothing excluded, nothing    *)
(* unreadable and no cancellation, every directory is recorded exactly     *)
(* once, and it is recorded empty iff it has no direct file and every      *)
(* direct subdirectory is recorded empty, that is iff its subtree holds    *)
(* no file.                                                                *)
(***************************************************************************)
C5_ScannerVerdict ==
  (StaticScanDone /\ NoneExcluded(fsDirs))
  => /\ \A k \in 1..Len(scanResult) : scanResult[k].path \in fsDirs
     /\ \A d \in fsDirs : Cardinality(RecordsOf(scanResult, d)) = 1
     /\ \A k \in 1..Len(scanResult) :
          LET p == scanResult[k].path
          IN /\ scanResult[k].isEmpty <=>
                  ( /\ p \notin fsFiles
                    /\ \A c \in ChildDirs(fsDirs, p) :
                         \A j \in RecordsOf(scanResult, c) : scanResult[j].isEmpty )
             /\ scanResult[k].isEmpty <=> ~SubtreeHasFile(p)

\* A file two levels down made its directory and both ancestors non-empty,
\* beside an empty directory
C5_Witness ==
  /\ StaticScanDone
  /\ NoneExcluded(fsDirs)
  /\ \E f \in fsFiles : Len(f) = 3
  /\ \E k \in 1..Len(scanResult) : scanResult[k].isEmpty
  /\ \E k \in 1..Len(scanResult) :
       scanResult[k].path = RootPath /\ ~scanResult[k].isEmpty

C7_NoExcludedRecord ==
  /\ \A k \in 1..Len(directories) :
       \A n \in 1..Len(directories[k].path) : ~IsExcludedName(directories[k].path[n])
  /\ \A k \in 1..Len(scanResult) :
       \A n \in 1..Len(scanResult[k].path) : ~IsExcludedName(scanResult[k].path[n])

\* The tree holds an excluded directory with a subdirectory of an unexcluded
\* name, and the scan returned other records
C7_Witness ==
  /\ phase = "scanned"
  /\ scanResult # <<>>
  /\ \E d \in fsDirs :
       /\ ~IsExcludedName(basename(d))
       /\ d # RootPath
       /\ IsExcludedName(basename(dirname(d)))

(***************************************************************************)
(* C8: with only patterns without '*', shouldExclude(name) is true iff     *)
(* name equals one of the patterns, case ignored; with no pattern it is    *)
(* false for every name.                                                   *)
(***************************************************************************)
C8_ExactPatterns ==
  (probe.called /\ NoStarPatterns)
  => /\ probe.result <=>
          \E i \in 1..Len(excludePatterns) :
            EqualIgnoringCase(excludePatterns[i], probe.name)
     /\ excludePatterns = <<>> => ~probe.result

\* The second of two patterns matched a name that differs from it in case
C8_Witness ==
  /\ probe.called
  /\ NoStarPatterns
  /\ Len(excludePatterns) = 2
  /\ probe.result
  /\ probe.name # excludePatterns[1]
  /\ probe.name # excludePatterns[2]
  /\ ~EqualIgnoringCase(excludePatterns[1], probe.name)

(***************************************************************************)
(* C9: with one pattern containing '*', shouldExclude(name) is true iff    *)
(* the whole name is the pattern with each '*' replaced by a run of        *)
(* characters, every other pattern character ('.' included) standing for   *)
(* itself, case ignored.                                                   *)
(***************************************************************************)
C9_WildcardIsGlob ==
  (probe.called /\ Len(excludePatterns) = 1 /\ includesStar(excludePatterns[1]))
  => (probe.result <=> GlobMatches(excludePatterns[1], probe.name))

(***************************************************************************)
(* C10: the list scanDirectories returns is in non-increasing depth        *)
(* order, for every tree, interleaving and cancellation moment.            *)
(***************************************************************************)
C10_SortedByDepth ==
  \A i \in 1..Len(scanResult) : \A j \in 1..Len(scanResult) :
    i < j => scanResult[i].depth >= scanResult[j].depth

\* The records were pushed out of depth order and returned
C10_Witness ==
  /\ phase = "scanned"
  /\ Len(scanResult) >= 3
  /\ \E i \in 1..Len(directories) : \E j \in 1..Len(directories) :
       i < j /\ directories[i].depth < directories[j].depth

(***************************************************************************)
(* C11: with dryRun = true no step of removeEmptyFolders takes a directory *)
(* or a file off the disk, for every record list, while each attempt whose *)
(* re-listing is empty increments totalRemoved by 1, so that totalRemoved  *)
(* is the number of such attempts.                                         *)
(***************************************************************************)
C11_DryRunKeepsDisk ==
  [][dryRun =>
       /\ fsDirs \subseteq fsDirs'
       /\ fsFiles \subseteq fsFiles'
       /\ \A k \in DOMAIN taskPc :
            ( /\ taskPc[k] = "readdir"
              /\ taskPc'[k] # "readdir"
              /\ inputDirectories[k].path \in fsDirs
              /\ readdirIsEmpty(fsDirs, fsFiles, inputDirectories[k].path) )
            => /\ taskPc'[k] = "removed"
               /\ stats'.totalRemoved = stats.totalRemoved + 1
               /\ fsDirs' = fsDirs
       /\ stats'.totalRemoved =
            Cardinality({k \in DOMAIN taskPc' : taskPc'[k] = "removed"})]_vars

\* A dry run over two entry-free directories counted both and left both on disk
C11_Witness ==
  /\ phase = "done"
  /\ dryRun
  /\ stats.totalRemoved = 2
  /\ initialDirs \subseteq fsDirs
  /\ Len(inputDirectories) = 2
  /\ inputDirectories[1].path # inputDirectories[2].path
  /\ \A k \in 1..2 :
       /\ inputDirectories[k].path \in fsDirs
       /\ readdirIsEmpty(fsDirs, fsFiles, inputDirectories[k].path)

(***************************************************************************)
(* C12: race skip: when the re-listing of a record marked isEmpty = true   *)
(* settles and the directory holds at least one entry, the attempt ends    *)
(* as skipped: the directory stays on disk and totalRemoved, totalErrors   *)
(* and errors are left as they were, so that skipped records count in no   *)
(* counter.                                                                *)
(***************************************************************************)
C12_RaceSkip ==
  [][/\ \A k \in DOMAIN taskPc :
          ( /\ taskPc[k] = "readdir"
            /\ taskPc'[k] # "readdir"
            /\ inputDirectories[k].isEmpty
            /\ inputDirectories[k].path \in fsDirs
            /\ ~readdirIsEmpty(fsDirs, fsFiles, inputDirectories[k].path) )
          => /\ taskPc'[k] = "skipped"
             /\ inputDirectories[k].path \in fsDirs'
             /\ stats'.totalRemoved = stats.totalRemoved
             /\ stats'.totalErrors = stats.totalErrors
             /\ stats'.errors = stats.errors
     /\ stats'.totalRemoved + stats'.totalErrors =
          Cardinality({k \in DOMAIN taskPc' : taskPc'[k] \in {"removed", "error"}})]_vars

\* The actor made a subdirectory in a marked, entry-free directory after the
\* call had started; the directory was skipped and nothing was counted
C12_Witness ==
  /\ phase = "done"
  /\ actorSteps >= 1
  /\ stats.totalRemoved = 0
  /\ stats.totalErrors = 0
  /\ stats.errors = <<>>
  /\ \E k \in DOMAIN taskPc :
       LET p == inputDirectories[k].path
       IN /\ inputDirectories[k].isEmpty
          /\ taskPc[k] = "skipped"
          /\ p \in fsDirs
          /\ p \notin fsFiles
          /\ ChildDirs(initialDirs, p) = {}
          /\ ChildDirs(fsDirs, p) # {}

(***************************************************************************)
(* C13: error isolation: an attempt whose re-listing or deletion fails     *)
(* adds exactly 1 to totalErrors and exactly one entry, naming its path,   *)
(* to errors; totalErrors is the number of failed attempts and the length  *)
(* of errors; and without cancellation the call returns only after every   *)
(* record marked empty has been attempted, failures or not.                *)
(***************************************************************************)
C13_ErrorIsolation ==
  [][/\ \A k \in DOMAIN taskPc :
          LET p == inputDirectories[k].path
              fails == \/ taskPc[k] = "readdir" /\ readdirFails(fsDirs, unreadable, p)
                       \/ taskPc[k] = "rmdir" /\ ~rmdir(fsDirs, fsFiles, p).ok
          IN /\ (taskPc[k] \in InFlight /\ taskPc'[k] \notin InFlight /\ fails)
                  => taskPc'[k] = "error"
             /\ (taskPc[k] \in InFlight /\ taskPc'[k] = "error")
                  => /\ fails
                     /\ stats'.totalErrors = stats.totalErrors + 1
                     /\ Len(stats'.errors) = Len(stats.errors) + 1
                     /\ SubSeq(stats'.errors, 1, Len(stats.errors)) = stats.errors
                     /\ stats'.errors[Len(stats'.errors)].path = p
                     /\ stats'.totalRemoved = stats.totalRemoved
     /\ stats'.totalErrors = Cardinality({k \in DOMAIN taskPc' : taskPc'[k] = "error"})
     /\ Len(stats'.errors) = stats'.totalErrors
     /\ (phase' = "done" /\ ~token')
          => \A k \in DOMAIN taskPc' :
               inputDirectories'[k].isEmpty => taskPc'[k] \in Settled]_vars

\* The first record's directory did not exist and was counted as one error; the
\* second record, the next batch of the same depth group, was still attempted,
\* and removed
C13_Witness ==
  /\ phase = "done"
  /\ ~token
  /\ ~dryRun
  /\ maxConcurrency = 1
  /\ Len(inputDirectories) = 2
  /\ inputDirectories[1].depth = inputDirectories[2].depth
  /\ inputDirectories[1].path \notin initialDirs
  /\ taskPc[1] = "error"
  /\ taskPc[2] = "removed"
  /\ stats.totalErrors = 1
  /\ Len(stats.errors) = 1
  /\ stats.totalRemoved = 1

(***************************************************************************)
(* C14: when the token is already set at the call of removeEmptyFolders,   *)
(* the call returns at once for every record list: no attempt is started   *)
(* (nothing is re-listed or deleted), the filesystem is unchanged,         *)
(* totalRemoved = 0, totalErrors = 0 and no progress message is emitted.   *)
(***************************************************************************)
C14_CancelledBeforeCall ==
  [][(phase = "ready" /\ token /\ phase' # "ready")
       => /\ phase' = "done"
          /\ \A k \in DOMAIN taskPc' : taskPc'[k] = "pending"
          /\ fsDirs' = fsDirs
          /\ fsFiles' = fsFiles
          /\ stats'.totalRemoved = 0
          /\ stats'.totalErrors = 0
          /\ stats'.errors = <<>>
          /\ progress' = <<>>]_vars

\* The call returned with the token set and no attempt started, although a
\* record marked empty names an entry-free directory that a run would remove
C14_Witness ==
  /\ phase = "done"
  /\ token
  /\ ~dryRun
  /\ fsDirs = initialDirs
  /\ progress = <<>>
  /\ stats.totalRemoved = 0
  /\ \A k \in DOMAIN taskPc : taskPc[k] = "pending"
  /\ \E k \in DOMAIN taskPc :
       /\ inputDirectories[k].isEmpty
       /\ inputDirectories[k].path \in fsDirs
       /\ readdirIsEmpty(fsDirs, fsFiles, inputDirectories[k].path)

(***************************************************************************)
(* C15: cancellation during removal: once the token is set no pending      *)
(* record is started, in this batch's depth group or a shallower one; the  *)
(* call returns only when no attempt is in flight, with every settled      *)
(* attempt counted; a directory leaves the disk only through an attempt    *)
(* in flight, and a record never started contributes to no counter and no  *)
(* progress message.                                                       *)
(***************************************************************************)
C15_CancelStopsNewWork ==
  [][/\ token => \A k \in DOMAIN taskPc : taskPc[k] = "pending" => taskPc'[k] = "pending"
     /\ \A d \in fsDirs \ fsDirs' :
          \E k \in DOMAIN taskPc :
            /\ inputDirectories[k].path = d
            /\ taskPc[k] = "rmdir"
            /\ taskPc'[k] = "removed"
     /\ phase' = "done" => \A k \in DOMAIN taskPc' : taskPc'[k] \notin InFlight
     /\ stats'.totalRemoved = Cardinality({k \in DOMAIN taskPc' : taskPc'[k] = "removed"})
     /\ stats'.totalErrors = Cardinality({k \in DOMAIN taskPc' : taskPc'[k] = "error"})
     /\ Len(progress') = Cardinality({k \in DOMAIN taskPc' : taskPc'[k] \in Settled})]_vars

\* The token was set while the first batch was in flight: its directory was
\* removed and counted, and the second record, marked empty and entry-free on
\* disk, was never started
C15_Witness ==
  /\ phase = "done"
  /\ token
  /\ ~dryRun
  /\ Len(inputDirectories) = 2
  /\ taskPc[1] = "removed"
  /\ taskPc[2] = "pending"
  /\ stats.totalRemoved = 1
  /\ stats.totalErrors = 0
  /\ inputDirectories[2].isEmpty
  /\ inputDirectories[2].path \in fsDirs
  /\ readdirIsEmpty(fsDirs, fsFiles, inputDirectories[2].path)

(***************************************************************************)
(* C16: bounded concurrency: with maxConcurrency >= 1, after every step    *)
(* at most maxConcurrency attempts are in flight, all of them records of   *)
(* one depth, and a step that starts attempts leaves no attempt of an      *)
(* earlier batch in flight.                                                *)
(***************************************************************************)
C16_BoundedConcurrency ==
  [][maxConcurrency >= 1 =>
       LET flying == {k \in DOMAIN taskPc' : taskPc'[k] \in InFlight}
           started == {k \in DOMAIN taskPc' :
                         /\ taskPc'[k] = "readdir"
                         /\ k \in DOMAIN taskPc => taskPc[k] \notin InFlight}
       IN /\ Cardinality(flying) <= maxConcurrency
          /\ \A k \in flying : \A j \in flying :
               inputDirectories'[k].depth = inputDirectories'[j].depth
          /\ started # {} => flying = started]_vars

\* With maxConcurrency = 1 and two marked records of one depth, the second is
\* in flight after the first has settled
C16_Witness ==
  /\ phase = "removing"
  /\ maxConcurrency = 1
  /\ Len(inputDirectories) = 2
  /\ inputDirectories[1].isEmpty
  /\ inputDirectories[2].isEmpty
  /\ inputDirectories[1].depth = inputDirectories[2].depth
  /\ taskPc[1] \in Settled
  /\ taskPc[2] \in InFlight

(***************************************************************************)
(* C17: from the call on, and in the Stats returned, totalScanned is the   *)
(* length of the whole input list, records with isEmpty = false included,  *)
(* whatever is removed, skipped or failed, and also when the run is        *)
(* cancelled.                                                              *)
(***************************************************************************)
C17_ScannedIsInputLength ==
  phase \in {"removing", "done"} => stats.totalScanned = Len(inputDirectories)

\* A cancelled run over a marked record, which was removed, and an unmarked one
\* returned totalScanned = 2
C17_Witness ==
  /\ phase = "done"
  /\ token
  /\ Len(inputDirectories) = 2
  /\ \E k \in 1..2 : ~inputDirectories[k].isEmpty
  /\ \E k \in 1..2 : taskPc[k] = "removed"
  /\ stats.totalScanned = 2
  /\ stats.totalRemoved = 1

\* The sum of a sequence of numbers, and the concatenation of a sequence of
\* sequences, from the last element back
RECURSIVE SumOf(_)
SumOf(ns) == IF ns = <<>> THEN 0 ELSE SumOf(SubSeq(ns, 1, Len(ns) - 1)) + ns[Len(ns)]

RECURSIVE ConcatOf(_)
ConcatOf(ss) == IF ss = <<>> THEN <<>> ELSE ConcatOf(SubSeq(ss, 1, Len(ss) - 1)) \o ss[Len(ss)]

(***************************************************************************)
(* C18: aggregateStats is a pure field-wise merge: the result's            *)
(* totalScanned, totalRemoved and totalErrors are the sums of the          *)
(* arguments' fields, its errors is the concatenation of their error       *)
(* lists in list order, the empty list gives all-zero Stats with no        *)
(* error, and every argument is after the call what it was before.         *)
(***************************************************************************)
C18_AggregateIsMerge ==
  aggregation.called =>
    LET args == aggregation.args
        result == aggregation.result
    IN /\ result.totalScanned = SumOf([k \in 1..Len(args) |-> args[k].totalScanned])
       /\ result.totalRemoved = SumOf([k \in 1..Len(args) |-> args[k].totalRemoved])
       /\ result.totalErrors = SumOf([k \in 1..Len(args) |-> args[k].totalErrors])
       /\ result.errors = ConcatOf([k \in 1..Len(args) |-> args[k].errors])
       /\ args = <<>> =>
            /\ result.totalScanned = 0
            /\ result.totalRemoved = 0
            /\ result.totalErrors = 0
            /\ result.duration = 0
            /\ result.errors = <<>>
       /\ aggregation.statsList = args

\* Two Stats with different counters and error lists were merged, the second's
\* errors after the first's
C18_Witness ==
  /\ aggregation.called
  /\ Len(aggregation.args) = 2
  /\ aggregation.args[1].errors = <<"e2", "e3">>
  /\ aggregation.args[2].errors = <<"e1">>
  /\ aggregation.args[1].totalScanned # aggregation.args[1].totalRemoved
  /\ aggregation.result.errors = <<"e2", "e3", "e1">>
  /\ aggregation.result.totalScanned = 2
  /\ aggregation.result.totalRemoved = 1

(***************************************************************************)
(* C19: a scanDirectories call made with the token already set returns     *)
(* the empty list in the same step, for every tree and pattern list: no    *)
(* record is pushed and no listing is issued, the root's call returning    *)
(* at its first check.                                                     *)
(***************************************************************************)
C19_CancelledBeforeScan ==
  [][(phase = "idle" /\ token /\ phase' # "idle")
       => /\ phase' = "scanned"
          /\ scanResult' = <<>>
          /\ directories' = <<>>
          /\ DOMAIN scanCalls' = {RootPath}
          /\ scanCalls'[RootPath].pc = "returned"]_vars

\* The root exists, is readable, entry-free and not excluded, so that any
\* listing would have recorded it; the token was set and the scan returned
\* nothing
C19_Witness ==
  /\ phase = "scanned"
  /\ token
  /\ fsDirs = {RootPath}
  /\ fsFiles = {}
  /\ unreadable = {}
  /\ ~IsExcludedName(basename(RootPath))
  /\ scanResult = <<>>

(***************************************************************************)
(* C20: once cancellation is signaled during a scan no further directory   *)
(* is recorded: while the token is set the list of records is as long as   *)
(* it was at the signal, and so is the list the scan returns, also for     *)
(* directories that were waiting on their subdirectories.                  *)
(***************************************************************************)
C20_NoRecordAfterCancel ==
  /\ token => Len(directories) = cancelledAt
  /\ (phase = "scanned" /\ token) => Len(scanResult) = cancelledAt

(***************************************************************************)
(* C21: every call of removeEmptyFolders, a second call on the same        *)
(* remover included, returns counters and an error list that reflect that  *)
(* call only, and a Stats value already returned reads afterwards as it    *)
(* did when it was returned.                                               *)
(***************************************************************************)
C21_StatsPerCall ==
  /\ phase = "done" =>
       /\ stats.totalRemoved = Cardinality({k \in DOMAIN taskPc : taskPc[k] = "removed"})
       /\ stats.totalErrors = Cardinality({k \in DOMAIN taskPc : taskPc[k] = "error"})
       /\ Len(stats.errors) = Cardinality({k \in DOMAIN taskPc : taskPc[k] = "error"})
  /\ \A c \in 1..Len(returned) : returnedStats(c) = returned[c]

(***************************************************************************)
(* C22: scanDirectories never mutates the filesystem: no step of a scan    *)
(* adds or removes a directory or a file, for every tree, pattern list,    *)
(* unreadable directory, interleaving and cancellation moment, so that     *)
(* the directories at the return are those at the call.                    *)
(***************************************************************************)
C22_ScanLeavesDisk ==
  [][/\ fsDirs' = fsDirs
     /\ fsFiles' = fsFiles
     /\ phase' = "scanned" => fsDirs' = initialDirs]_vars

\* A complete scan recorded four directories, some of them empty, and all four
\* are on disk afterwards
C22_Witness ==
  /\ phase = "scanned"
  /\ ~token
  /\ Len(scanResult) = 4
  /\ \E k \in 1..Len(scanResult) : scanResult[k].isEmpty
  /\ fsFiles # {}
  /\ Cardinality(fsDirs) = 4
  /\ fsDirs = initialDirs

(***************************************************************************)
(* C23: a scan root that does not exist (or is no directory) is reported   *)
(* as a failure of the operation: scanDirectories, not cancelled, does not *)
(* return an ordinary result, the empty list in particular, for it        *)
(* (a root whose own name is excluded is never listed, and is left out).   *)
(***************************************************************************)
C23_MissingRootReported ==
  (RootPath \notin fsDirs /\ ~token /\ ~IsExcludedName(basename(RootPath)))
  => phase # "scanned"

\* scanRecursive(d) is called and gets to its readdir: d is on disk, no name on
\* its path is excluded and every directory above it can be listed
Reached(d) ==
  /\ d \in fsDirs
  /\ \A n \in 1..Len(d) : ~IsExcludedName(d[n])
  /\ \A a \in fsDirs : (IsPrefix(a, d) /\ a # d) => a \notin unreadable

\* The verdict of d when every directory below it can be listed: no file in d,
\* and every subdirectory is not excluded and has that verdict itself
RECURSIVE VerdictOf(_)
VerdictOf(d) ==
  /\ d \notin fsFiles
  /\ \A c \in ChildDirs(fsDirs, d) : ~IsExcludedName(basename(c)) /\ VerdictOf(c)

(***************************************************************************)
(* C24: a directory that cannot be listed is not recorded, and the scan    *)
(* still returns its list: every other directory the scan gets to, the     *)
(* unreadable one's siblings and their subtrees among them, is recorded    *)
(* exactly once, and each directory with no unreadable directory in its    *)
(* subtree has the verdict it would have had without the failure.          *)
(***************************************************************************)
C24_UnreadableSkipped ==
  (phase = "scanned" /\ ~token)
  => /\ \A u \in unreadable : RecordsOf(scanResult, u) = {}
     /\ \A d \in fsDirs :
          (Reached(d) /\ d \notin unreadable)
          => Cardinality(RecordsOf(scanResult, d)) = 1
     /\ \A k \in 1..Len(scanResult) :
          LET p == scanResult[k].path
          IN (\A u \in unreadable : ~IsPrefix(p, u))
             => (scanResult[k].isEmpty <=> VerdictOf(p))

\* The scan got to an unreadable directory and returned; its sibling, which has
\* a subdirectory, was recorded empty
C24_Witness ==
  /\ phase = "scanned"
  /\ ~token
  /\ \E u \in unreadable : \E sib \in fsDirs :
       /\ Reached(u)
       /\ sib # u
       /\ Len(sib) = Len(u)
       /\ dirname(sib) = dirname(u)
       /\ ChildDirs(fsDirs, sib) # {}
       /\ \E k \in RecordsOf(scanResult, sib) : scanResult[k].isEmpty
       /\ \A c \in ChildDirs(fsDirs, sib) : RecordsOf(scanResult, c) # {}

(***************************************************************************)
(* C25: the scan root is treated like any other directory: when the tree   *)
(* under the root holds no file, nothing is excluded or unreadable and the *)
(* token stays unset, the scan records the root with depth 0 and           *)
(* isEmpty = true, and a removal without dry run deletes the root, in the  *)
(* step that empties the disk, so after every other directory.             *)
(***************************************************************************)
C25_RootRemovedLast ==
  [][( /\ RootPath \in initialDirs
       /\ fsFiles = {}
       /\ unreadable = {}
       /\ NoneExcluded(initialDirs)
       /\ ~token' )
     => /\ phase' = "scanned" =>
             \E k \in RecordsOf(scanResult', RootPath) :
               scanResult'[k].depth = 0 /\ scanResult'[k].isEmpty
        /\ (RootPath \in fsDirs /\ RootPath \notin fsDirs') => fsDirs' = {}
        /\ (phase' = "done" /\ ~dryRun) => fsDirs' = {}]_vars

\* A root with three directories below it and no file: all four were removed
C25_Witness ==
  /\ phase = "done"
  /\ ~token
  /\ ~dryRun
  /\ unreadable = {}
  /\ NoneExcluded(initialDirs)
  /\ fsFiles = {}
  /\ Cardinality(initialDirs) = 4
  /\ fsDirs = {}
  /\ stats.totalRemoved = 4

(***************************************************************************)
(* C26: removeEmptyFolders never fails as a whole: whatever re-listings    *)
(* and deletions fail, and whatever the sink does, the call does not       *)
(* reject and does not stall (while it runs an attempt is in flight), it   *)
(* returns only after every record marked empty has settled, and every     *)
(* failed attempt has its errors entry and its totalErrors increment.      *)
(***************************************************************************)
C26_NeverFailsAsWhole ==
  LET failed == {k \in DOMAIN taskPc : taskPc[k] = "error"}
      entries == {e \in 1..Len(stats.errors) : stats.errors[e].reason # "sink"}
  IN /\ phase \in {"ready", "removing", "done"}
     /\ phase = "removing" => \E k \in DOMAIN taskPc : taskPc[k] \in InFlight
     /\ phase = "done" =>
          \A k \in DOMAIN taskPc : inputDirectories[k].isEmpty => taskPc[k] \in Settled
     /\ Cardinality(entries) = Cardinality(failed)
     /\ \A k \in failed : \E e \in entries : stats.errors[e].path = inputDirectories[k].path
     /\ stats.totalErrors = Len(stats.errors)
     /\ stats.totalErrors >= Cardinality(failed)

\* A re-listing failed on a missing path and an rmdir failed on a directory the
\* actor had filled, under a sink that throws: the call returned with both
\* failures counted
C26_Witness ==
  /\ phase = "done"
  /\ sinkThrows
  /\ Len(inputDirectories) = 2
  /\ taskPc[1] = "error"
  /\ taskPc[2] = "error"
  /\ rejected = {1, 2}
  /\ \E e \in 1..Len(stats.errors) : stats.errors[e].reason = "ENOENT"
  /\ \E e \in 1..Len(stats.errors) : stats.errors[e].reason = "ENOTEMPTY"
  /\ stats.totalErrors = 2

(***************************************************************************)
(* C27: the progress sink is observational only: every settled attempt     *)
(* has handed the sink exactly one message, and the counters are those of  *)
(* the filesystem outcomes (totalRemoved the removed or would-be-removed   *)
(* directories, totalErrors and errors the failed re-listings and          *)
(* deletions), whether the sink throws or not.                             *)
(***************************************************************************)
C27_SinkObservationalOnly ==
  /\ Len(progress) = Cardinality({k \in DOMAIN taskPc : taskPc[k] \in Settled})
  /\ stats.totalRemoved = Cardinality({k \in DOMAIN taskPc : taskPc[k] = "removed"})
  /\ stats.totalErrors = Cardinality({k \in DOMAIN taskPc : taskPc[k] = "error"})
  /\ Len(stats.errors) = Cardinality({k \in DOMAIN taskPc : taskPc[k] = "error"})

(***************************************************************************)
(* C28: on a filesystem nobody else modifies, a dry run over a scan result *)
(* reports the totalRemoved that a run without dry run over the same scan  *)
(* result and tree reports, which is the number of directories whose       *)
(* subtree holds no file, chains of nested empty directories included.     *)
(***************************************************************************)
C28_DryRunCountsAsRealRun ==
  ( /\ phase = "done"
    /\ ~token
    /\ unreadable = {}
    /\ NoneExcluded(initialDirs) )
  => stats.totalRemoved = Cardinality({d \in initialDirs : ~SubtreeHasFile(d)})

(***************************************************************************)
(* C29: no lost updates: for every interleaving of the attempts of a       *)
(* batch, totalRemoved is the number of attempts that removed (or would    *)
(* have removed) their directory, totalErrors the number that failed, and  *)
(* errors holds one entry per failure, of its path; for every              *)
(* interleaving of the concurrent subtree scans no directory has two       *)
(* records, and without cancellation every directory whose scan has        *)
(* completed has exactly one.                                              *)
(***************************************************************************)
C29_NoLostUpdates ==
  LET removed == {k \in DOMAIN taskPc : taskPc[k] = "removed"}
      failed == {k \in DOMAIN taskPc : taskPc[k] = "error"}
      completed == {p \in DOMAIN scanCalls :
                      /\ scanCalls[p].pc = "returned"
                      /\ ~IsExcludedName(basename(p))
                      /\ ~readdirFails(fsDirs, unreadable, p)}
  IN /\ stats.totalRemoved = Cardinality(removed)
     /\ stats.totalErrors = Cardinality(failed)
     /\ Len(stats.errors) = Cardinality(failed)
     /\ \A p \in RemovePaths :
          Cardinality({e \in 1..Len(stats.errors) : stats.errors[e].path = p})
            = Cardinality({k \in failed : inputDirectories[k].path = p})
     /\ \A p \in DOMAIN scanCalls : Cardinality(RecordsOf(directories, p)) <= 1
     /\ \A k \in 1..Len(directories) :
          /\ directories[k].path \in DOMAIN scanCalls
          /\ scanCalls[directories[k].path].pc = "returned"
     /\ ~token => \A p \in completed : Cardinality(RecordsOf(directories, p)) = 1

\* Two attempts of one batch were in flight together and both removed their
\* directory: both increments are in totalRemoved
C29_Witness ==
  /\ phase = "done"
  /\ ~dryRun
  /\ maxConcurrency = 2
  /\ Len(inputDirectories) = 2
  /\ inputDirectories[1].depth = inputDirectories[2].depth
  /\ inputDirectories[1].path # inputDirectories[2].path
  /\ taskPc[1] = "removed"
  /\ taskPc[2] = "removed"
  /\ stats.totalRemoved = 2

\* The verdict the tree alone gives d: no file in d, and every subdirectory is
\* not excluded, can be listed and has that verdict itself
RECURSIVE TreeVerdict(_)
TreeVerdict(d) ==
  /\ d \notin fsFiles
  /\ \A c \in ChildDirs(fsDirs, d) :
       ~IsExcludedName(basename(c)) /\ c \notin unreadable /\ TreeVerdict(c)

\* The records the tree alone gives: one for every directory the recursion gets
\* to and can list
TreeRecords ==
  {[path |-> d, depth |-> Len(d) - 1, isEmpty |-> TreeVerdict(d)] :
     d \in {e \in fsDirs : Reached(e) /\ e \notin unreadable}}

(***************************************************************************)
(* C30: join barrier and determinism: a directory is recorded only after   *)
(* the scans of all its direct subdirectories have returned, and on a      *)
(* static tree without cancellation the returned records, verdicts         *)
(* included, are the set the tree alone determines, one record each,       *)
(* whatever the interleaving of the concurrent sibling scans.              *)
(***************************************************************************)
C30_JoinBarrier ==
  /\ \A k \in 1..Len(directories) :
       LET p == directories[k].path
       IN /\ scanCalls[p].pc = "returned"
          /\ \A sd \in scanCalls[p].subdirectories : scanCalls[sd].pc = "returned"
          /\ scanCalls[p].subdirectories = ChildDirs(fsDirs, p)
  /\ (phase = "scanned" /\ ~token)
       => /\ Range(scanResult) = TreeRecords
          /\ Len(scanResult) = Cardinality(TreeRecords)

\* The scans of two sibling subtrees ran concurrently: an empty sibling was
\* recorded first, then the other sibling's subdirectory, then that sibling
C30_Witness ==
  /\ phase = "scanned"
  /\ ~token
  /\ \E i \in 1..Len(directories) : \E j \in 1..Len(directories) :
       \E k \in 1..Len(directories) :
         /\ i < j
         /\ j < k
         /\ dirname(directories[j].path) = directories[k].path
         /\ directories[i].path # directories[k].path
         /\ Len(directories[i].path) = Len(directories[k].path)
         /\ directories[i].isEmpty
         /\ directories[k].isEmpty

(***************************************************************************)
(* C31: time-of-check/time-of-use window: when an entry has been added to  *)
(* a directory after its re-listing came back empty and before its rmdir   *)
(* is performed, the rmdir fails: the directory stays on disk,             *)
(* totalRemoved is not incremented, totalErrors is incremented by 1 and    *)
(* one entry, naming the directory, is appended to errors.                 *)
(***************************************************************************)
C31_FilledBeforeRmdir ==
  [][\A k \in DOMAIN taskPc :
       LET p == inputDirectories[k].path
       IN ( /\ taskPc[k] = "rmdir"
            /\ taskPc'[k] # "rmdir"
            /\ p \in fsDirs
            /\ ~readdirIsEmpty(fsDirs, fsFiles, p) )
          => /\ taskPc'[k] = "error"
             /\ p \in fsDirs'
             /\ fsDirs' = fsDirs
             /\ stats'.totalRemoved = stats.totalRemoved
             /\ stats'.totalErrors = stats.totalErrors + 1
             /\ stats'.errors =
                  Append(stats.errors, [path |-> p, reason |-> "ENOTEMPTY"])]_vars

\* The only record names a directory that was entry-free at the call; the actor
\* put a file into it while its rmdir was pending, and the run ended with the
\* directory on disk, nothing removed and one error
C31_Witness ==
  /\ phase = "done"
  /\ ~dryRun
  /\ actorSteps = 1
  /\ Len(inputDirectories) = 1
  /\ taskPc[1] = "error"
  /\ inputDirectories[1].path \in fsDirs
  /\ inputDirectories[1].path \in fsFiles
  /\ ChildDirs(fsDirs, inputDirectories[1].path) = {}
  /\ stats.totalRemoved = 0
  /\ stats.totalErrors = 1
  /\ stats.errors = <<[path |-> inputDirectories[1].path, reason |-> "ENOTEMPTY"]>>

(***************************************************************************)
(* C32: within one call each record with isEmpty = true is the target of   *)
(* at most one deletion attempt (an attempt starts only on a record not    *)
(* attempted before, and a settled attempt stays settled), and for a fresh *)
(* remover with a sink that returns normally every state from the call on  *)
(* has totalErrors = Len(errors) and                                       *)
(* totalRemoved + totalErrors <= number of isEmpty records <= totalScanned *)
(***************************************************************************)
C32_OneAttemptAndCounters ==
  [][LET emptyRecords == {k \in DOMAIN inputDirectories : inputDirectories[k].isEmpty}
     IN /\ \A k \in DOMAIN taskPc :
             /\ (taskPc'[k] = "readdir" /\ taskPc[k] # "readdir")
                  => (taskPc[k] = "pending" /\ k \in emptyRecords)
             /\ taskPc[k] = "rmdir" => taskPc'[k] \in {"rmdir", "removed", "error"}
             /\ taskPc[k] \in Settled => taskPc'[k] = taskPc[k]
        /\ stats'.totalErrors = Len(stats'.errors)
        /\ phase' \in {"removing", "done"}
             => /\ stats'.totalRemoved + stats'.totalErrors <= Cardinality(emptyRecords)
                /\ Cardinality(emptyRecords) <= stats'.totalScanned]_vars

\* A finished call over two records, one with isEmpty = true and one without,
\* in which the attempt on the first failed: 0 + 1 <= 1 <= 2
C32_Witness ==
  /\ phase = "done"
  /\ Len(inputDirectories) = 2
  /\ Cardinality({k \in DOMAIN inputDirectories : inputDirectories[k].isEmpty}) = 1
  /\ \E k \in DOMAIN taskPc : taskPc[k] = "error"
  /\ \E k \in DOMAIN taskPc : taskPc[k] = "pending" /\ ~inputDirectories[k].isEmpty
  /\ stats.totalErrors = 1
  /\ stats.totalRemoved = 0
  /\ stats.totalScanned = 2

(***************************************************************************)
(* C33: provided every issued filesystem call completes, a scanDirectories *)
(* call on a finite tree eventually returns, and a removeEmptyFolders call *)
(* over a finite record list with maxConcurrency >= 1 eventually returns   *)
(* its stats, whether or not cancellation is requested on the way.         *)
(***************************************************************************)
C33_EventuallyReturns ==
  /\ (phase = "scanning") ~> (phase = "scanned")
  /\ (phase = "removing") ~> (phase = "done")

\* A removal that went through two successive batches and returned after a
\* cancellation request, and (second disjunct) a scan of a tree with a
\* subdirectory that returned after a cancellation request
C33_Witness ==
  \/ /\ phase = "done"
     /\ token
     /\ maxConcurrency = 1
     /\ Len(inputDirectories) = 2
     /\ \E k \in DOMAIN taskPc : taskPc[k] \in Settled
     /\ \E k \in DOMAIN taskPc : taskPc[k] = "pending" /\ inputDirectories[k].isEmpty
  \/ /\ phase = "scanned"
     /\ token
     /\ Cardinality(fsDirs) >= 2
     /\ scanResult # <<>>

(***************************************************************************)
(* C34: removeEmptyFolders returns for every integer maxConcurrency the    *)
(* unvalidated configuration can supply, 0 and negative values included,   *)
(* when the input holds a record with isEmpty = true and cancellation is   *)
(* never requested.  Stated in the form a finite run refutes: the call     *)
(* never reaches the loop state it cannot leave, where the batch is empty, *)
(* i += batchSize does not move i forward, i < group.length stays true and *)
(* the token stays unset.                                                  *)
(***************************************************************************)
C34_ReturnsForAnyConcurrency ==
  (/\ \E k \in DOMAIN inputDirectories : inputDirectories[k].isEmpty
   /\ ~token)
    => phase # "spinning"

(***************************************************************************)
(* C35: a partial scan is safe to remove from: at every moment of every    *)
(* scan, cancelled at any point or not, with unreadable and excluded       *)
(* directories, a record with isEmpty = true names a directory with no     *)
(* file anywhere below it, whose every subdirectory, at every level, is    *)
(* neither excluded nor unreadable and has itself been scanned and         *)
(* recorded with isEmpty = true.  Cancellation and read failures turn a    *)
(* verdict to false only.                                                  *)
(***************************************************************************)
C35_PartialScanSafe ==
  /\ \A k \in 1..Len(directories) :
       LET p == directories[k].path
       IN directories[k].isEmpty
          => /\ p \in fsDirs
             /\ ~SubtreeHasFile(p)
             /\ TreeVerdict(p)
             /\ \A d \in fsDirs :
                  IsPrefix(p, d)
                  => /\ d \notin unreadable
                     /\ ~IsExcludedName(basename(d))
                     /\ \E j \in RecordsOf(directories, d) : directories[j].isEmpty
  /\ \A k \in 1..Len(scanResult) :
       scanResult[k].isEmpty => Marked(directories, scanResult[k].path)

\* A scan cancelled on the way returned a record with isEmpty = true next to a
\* record with isEmpty = false of a directory that the tree alone would have
\* given a true verdict
C35_Witness ==
  /\ phase = "scanned"
  /\ token
  /\ \E k \in 1..Len(scanResult) : scanResult[k].isEmpty
  /\ \E j \in 1..Len(scanResult) :
       /\ ~scanResult[j].isEmpty
       /\ TreeVerdict(scanResult[j].path)
       /\ \E d \in fsDirs :
            /\ IsPrefix(scanResult[j].path, d)
            /\ RecordsOf(scanResult, d) = {}

(***************************************************************************)
(* C36: over scanDirectories followed by removeEmptyFolders on its result, *)
(* no step deletes a directory whose base name matches an exclude pattern, *)
(* a directory inside such a directory, or an ancestor of such a           *)
(* directory.                                                              *)
(***************************************************************************)
C36_ExcludedSubtreesKept ==
  [][\A d \in fsDirs \ fsDirs' :
       \A e \in fsDirs :
         IsExcludedName(basename(e)) => (~IsPrefix(e, d) /\ ~IsPrefix(d, e))]_vars

\* A run without dry run deleted a directory next to an excluded one that holds
\* no file and has a subdirectory: the excluded one, its subdirectory and the
\* root are still on disk
C36_Witness ==
  /\ phase = "done"
  /\ ~dryRun
  /\ ~token
  /\ fsFiles = {}
  /\ unreadable = {}
  /\ stats.totalRemoved >= 1
  /\ \E d \in initialDirs : d \notin fsDirs
  /\ ~IsExcludedName(basename(RootPath))
  /\ RootPath \in fsDirs
  /\ \E e \in fsDirs :
       /\ IsExcludedName(basename(e))
       /\ ChildDirs(fsDirs, e) # {}
       /\ ChildDirs(fsDirs, e) = ChildDirs(initialDirs, e)

(***************************************************************************)
(* C37: when the scan root's own base name matches an exclude pattern,     *)
(* scanDirectories records nothing and returns the empty list, and the     *)
(* removal of that result attempts and removes nothing, whatever the tree  *)
(* below the root holds.                                                   *)
(***************************************************************************)
C37_ExcludedRootScansNothing ==
  [][IsExcludedName(basename(RootPath))
     => /\ directories' = <<>>
        /\ scanResult' = <<>>
        /\ phase' \in {"idle", "scanned", "done"}
        /\ fsDirs' = fsDirs
        /\ stats'.totalScanned = 0
        /\ stats'.totalRemoved = 0]_vars

\* The root, excluded by its name, has three file-free directories below it;
\* the scan and a removal without dry run have returned and all four are there
C37_Witness ==
  /\ phase = "done"
  /\ ~dryRun
  /\ ~token
  /\ IsExcludedName(basename(RootPath))
  /\ fsFiles = {}
  /\ unreadable = {}
  /\ Cardinality(fsDirs) = 4
  /\ fsDirs = initialDirs
  /\ inputDirectories = <<>>
  /\ stats.totalRemoved = 0

(***************************************************************************)
(* C38: a child that was skipped or that failed, and is still on disk,     *)
(* blocks its ancestors without cascading errors: when the re-listing of   *)
(* an ancestor marked isEmpty = true arrives, the ancestor is skipped, it  *)
(* stays on disk and totalErrors and errors are unchanged by it; when the  *)
(* call returns, every listable ancestor of such a child is skipped and    *)
(* totalErrors is the number of records whose own attempt failed, however  *)
(* long the chain of ancestors.                                            *)
(***************************************************************************)
C38_BlockedAncestorsSkipped ==
  [][LET blockedBy(pc, dirs, j) ==
           {k \in DOMAIN pc :
              /\ pc[k] \in {"skipped", "error"}
              /\ inputDirectories[k].path \in dirs
              /\ IsPrefix(inputDirectories[j].path, inputDirectories[k].path)
              /\ inputDirectories[j].path # inputDirectories[k].path}
     IN /\ \A j \in DOMAIN taskPc :
             ( /\ taskPc[j] = "readdir"
               /\ taskPc'[j] # "readdir"
               /\ inputDirectories[j].path \notin unreadable
               /\ blockedBy(taskPc, fsDirs, j) # {} )
             => /\ taskPc'[j] = "skipped"
                /\ inputDirectories[j].path \in fsDirs'
                /\ stats'.totalErrors = stats.totalErrors
                /\ stats'.errors = stats.errors
                /\ stats'.totalRemoved = stats.totalRemoved
        /\ phase' = "done"
             => /\ \A j \in DOMAIN taskPc' :
                     ( /\ inputDirectories[j].path \notin unreadable
                       /\ blockedBy(taskPc', fsDirs', j) # {} )
                     => taskPc'[j] = "skipped"
                /\ stats'.totalErrors =
                     Cardinality({k \in DOMAIN taskPc' : taskPc'[k] = "error"})]_vars

\* The deepest directory of the chain was filled by the actor while its rmdir
\* was pending: its attempt failed, each of its ancestors (at least two) was
\* skipped, and the call returned with one error
C38_Witness ==
  /\ phase = "done"
  /\ ~dryRun
  /\ unreadable = {}
  /\ Len(inputDirectories) >= 3
  /\ taskPc[1] = "error"
  /\ \A j \in DOMAIN taskPc : j > 1 => taskPc[j] = "skipped"
  /\ fsDirs = initialDirs
  /\ stats.totalErrors = 1
  /\ stats.errors = <<[path |-> inputDirectories[1].path, reason |-> "ENOTEMPTY"]>>
  /\ stats.totalRemoved = 0

(***************************************************************************)
(* C39: the pipeline is idempotent: on a filesystem nobody else modifies,  *)
(* after a complete scan and a removal without dry run, errors or          *)
(* cancellation, a second scan returns no record with isEmpty = true (and  *)
(* no record at all when the root was removed), and a second removal       *)
(* returns totalRemoved = 0 and leaves the filesystem as it was.           *)
(***************************************************************************)
C39_SecondRunRemovesNothing ==
  [][( /\ Len(returned') = 1
       /\ ~dryRun
       /\ ~token'
       /\ returned'[1].totalErrors = 0 )
     => /\ fsDirs' = fsDirs
        /\ phase' \in {"scanned", "removing", "done"}
             => /\ \A k \in 1..Len(scanResult') : ~scanResult'[k].isEmpty
                /\ RootPath \notin fsDirs' => scanResult' = <<>>
        /\ stats'.totalRemoved = 0
        /\ phase' = "done" => stats'.totalErrors = 0]_vars

\* The first run removed two directories or more, the second run scanned what
\* was left (the root and a directory with a file among it), recorded it with
\* isEmpty = false throughout and returned with nothing removed
C39_Witness ==
  /\ phase = "done"
  /\ Len(returned) = 1
  /\ ~dryRun
  /\ ~token
  /\ returned[1].totalRemoved >= 2
  /\ returned[1].totalErrors = 0
  /\ RootPath \in fsDirs
  /\ fsFiles # {}
  /\ Len(inputDirectories) >= 2
  /\ stats.totalScanned = Len(inputDirectories)
  /\ stats.totalRemoved = 0
  /\ Cardinality(fsDirs) = Cardinality(initialDirs) - returned[1].totalRemoved

====
